---- MODULE Spec2Model ----
(***************************************************************************)
(* Model of the test-orchestrator's "start runner executions" flow:        *)
(*   OrchestrationService.executeTests / runWithConcurrencyLimit           *)
(*   ContainerService.startTestExecution                                   *)
(*   ConfigService resolvers                                               *)
(*                                                                         *)
(* JavaScript runs each piece of code up to its next `await` without       *)
(* interleaving, so an action is one such run-to-completion piece.         *)
(* Strings are sequences of one-character strings, so that trim() and the  *)
(* other string operations are computed as the code computes them.         *)
(* Array indices keep the code's 0-based numbering; the TLA+ sequence      *)
(* element of index i is s[i + 1].                                         *)
(***************************************************************************)
EXTENDS Integers, Sequences, FiniteSets, TLC

\* ------------------------------------------------------------------ bounds

\* Longest matrix (custom or resolved) explored.
MaxCells == 3

\* ------------------------------------------------------------------ strings

\* JavaScript's undefined (an absent setting, field or variable). It is a
\* sequence like every string, and no string: a string's elements are single
\* characters.
Undefined == <<"undefined">>

\* A read of the primary source (App Configuration) that throws.
ReadFails == <<"throws">>

IsWhitespace(c) == c \in {" ", "\t"}

RECURSIVE TrimStart(_)
TrimStart(s) ==
    IF s # <<>> /\ IsWhitespace(Head(s)) THEN TrimStart(Tail(s)) ELSE s

RECURSIVE TrimEnd(_)
TrimEnd(s) ==
    IF s # <<>> /\ IsWhitespace(s[Len(s)])
    THEN TrimEnd(SubSeq(s, 1, Len(s) - 1))
    ELSE s

\* String.prototype.trim
Trim(s) == TrimEnd(TrimStart(s))

UpperChars ==
    <<"A", "B", "C", "D", "E", "F", "G", "H", "I", "J", "K", "L", "M",
      "N", "O", "P", "Q", "R", "S", "T", "U", "V", "W", "X", "Y", "Z">>
LowerChars ==
    <<"a", "b", "c", "d", "e", "f", "g", "h", "i", "j", "k", "l", "m",
      "n", "o", "p", "q", "r", "s", "t", "u", "v", "w", "x", "y", "z">>

\* String.prototype.toLowerCase on ASCII text
ToLowerCase(s) ==
    [i \in 1..Len(s) |->
        IF \E k \in 1..26 : UpperChars[k] = s[i]
        THEN LowerChars[CHOOSE k \in 1..26 : UpperChars[k] = s[i]]
        ELSE s[i]]

\* String.prototype.includes
Includes(s, sub) ==
    \E i \in 0..(Len(s) - Len(sub)) : SubSeq(s, i + 1, i + Len(sub)) = sub

\* `a || b` on strings: undefined and "" are falsy.
Falsy(s) == s = Undefined \/ s = <<>>
OrElse(a, b) == IF Falsy(a) THEN b ELSE a

\* `a ?? b`: only undefined (or null) gives way.
Nullish(a, b) == IF a = Undefined THEN b ELSE a

\* ------------------------------------------------------------------ numbers

\* A JavaScript number is held as a fraction num/den with den > 0, so that a
\* non-integer setting such as 2.5 keeps its value.
Num(n) == [num |-> n, den |-> 1]
Frac(n, d) == [num |-> n, den |-> d]

NumLE(a, b) == a.num * b.den <= b.num * a.den
NumMax(a, b) == IF NumLE(a, b) THEN b ELSE a
NumMin(a, b) == IF NumLE(a, b) THEN a ELSE b
\* Number.isInteger, and the integer a whole number denotes
IsInteger(a) == a.num % a.den = 0
IntValue(a) == a.num \div a.den

\* The results of Number(s): NaN, an infinity, or a finite fraction.
JsNaN == [kind |-> "nan", num |-> 0, den |-> 1]
JsInfinity == [kind |-> "inf", num |-> 1, den |-> 1]
JsFinite(n, d) == [kind |-> "num", num |-> n, den |-> d]

DigitChars == {"0", "1", "2", "3", "4", "5", "6", "7", "8", "9"}

DigitVal(c) ==
    CASE c = "0" -> 0 [] c = "1" -> 1 [] c = "2" -> 2 [] c = "3" -> 3
      [] c = "4" -> 4 [] c = "5" -> 5 [] c = "6" -> 6 [] c = "7" -> 7
      [] c = "8" -> 8 [] c = "9" -> 9

AllDigits(s) == \A i \in 1..Len(s) : s[i] \in DigitChars

RECURSIVE DigitsValue(_)
DigitsValue(s) ==
    IF s = <<>> THEN 0
    ELSE DigitsValue(SubSeq(s, 1, Len(s) - 1)) * 10 + DigitVal(s[Len(s)])

RECURSIVE Pow10(_)
Pow10(k) == IF k = 0 THEN 1 ELSE 10 * Pow10(k - 1)

\* String.prototype.indexOf for a one-character needle, 0-based, -1 if absent.
RECURSIVE IndexFrom(_, _, _)
IndexFrom(s, c, i) ==
    IF i > Len(s) THEN -1
    ELSE IF s[i] = c THEN i - 1
    ELSE IndexFrom(s, c, i + 1)
IndexOf(s, c) == IndexFrom(s, c, 1)

\* Number(s) for a trimmed, non-empty s written as a decimal literal
\* ([+-]digits[.digits], [+-].digits, [+-]Infinity); anything else is NaN.
\* Exponent, hexadecimal, octal and binary literals are outside the inputs
\* explored.
JsNumberUnsigned(s) ==
    IF s = <<"I", "n", "f", "i", "n", "i", "t", "y">> THEN JsInfinity
    ELSE LET dot == IndexOf(s, ".")
             ip == IF dot = -1 THEN s ELSE SubSeq(s, 1, dot)
             fp == IF dot = -1 THEN <<>> ELSE SubSeq(s, dot + 2, Len(s))
         IN IF AllDigits(ip) /\ AllDigits(fp) /\ (ip # <<>> \/ fp # <<>>)
            THEN JsFinite(DigitsValue(ip \o fp), Pow10(Len(fp)))
            ELSE JsNaN

JsNumber(s) ==
    IF s # <<>> /\ Head(s) \in {"+", "-"}
    THEN LET u == JsNumberUnsigned(Tail(s))
         IN IF Head(s) = "-" THEN [u EXCEPT !.num = 0 - u.num] ELSE u
    ELSE JsNumberUnsigned(s)

\* The leading decimal digits of s.
RECURSIVE LeadingDigits(_)
LeadingDigits(s) ==
    IF s # <<>> /\ Head(s) \in DigitChars
    THEN <<Head(s)>> \o LeadingDigits(Tail(s))
    ELSE <<>>

InfinityText == <<"I", "n", "f", "i", "n", "i", "t", "y">>

\* parseFloat(s): leading white space is skipped, then the longest prefix that
\* is a decimal literal ([+-]digits[.digits], [+-].digits, [+-]Infinity) is
\* read and the rest is ignored; with no such prefix the result is NaN.
\* Exponents are outside the inputs explored.
parseFloatUnsigned(s) ==
    IF Len(s) >= 8 /\ SubSeq(s, 1, 8) = InfinityText THEN JsInfinity
    ELSE LET ip == LeadingDigits(s)
             rest == SubSeq(s, Len(ip) + 1, Len(s))
             fp == IF rest # <<>> /\ Head(rest) = "." THEN LeadingDigits(Tail(rest))
                   ELSE <<>>
         IN IF ip = <<>> /\ fp = <<>> THEN JsNaN
            ELSE JsFinite(DigitsValue(ip \o fp), Pow10(Len(fp)))

parseFloat(s) ==
    LET t == TrimStart(s)
    IN IF t # <<>> /\ Head(t) \in {"+", "-"}
       THEN LET u == parseFloatUnsigned(Tail(t))
            IN IF Head(t) = "-" THEN [u EXCEPT !.num = 0 - u.num] ELSE u
       ELSE parseFloatUnsigned(t)

\* a <= b on numbers that are not NaN; an infinity has num 1 or -1.
JsLE(a, b) ==
    IF a.kind = "inf" THEN a.num < 0 \/ (b.kind = "inf" /\ b.num > 0)
    ELSE IF b.kind = "inf" THEN b.num > 0
    ELSE a.num * b.den <= b.num * a.den

\* Math.max(a, b): NaN if either is NaN.
JsMax(a, b) ==
    IF a.kind = "nan" \/ b.kind = "nan" THEN JsNaN
    ELSE IF JsLE(a, b) THEN b ELSE a

\* Number.isInteger
JsIsInteger(a) == a.kind = "num" /\ a.num % a.den = 0

\* The decimal digits of the natural number n.
RECURSIVE NatDigits(_)
NatDigits(n) ==
    LET d == <<CHOOSE c \in DigitChars : DigitVal(c) = n % 10>>
    IN IF n < 10 THEN d ELSE NatDigits(n \div 10) \o d

\* The digits after the point of r/den, 0 <= r < den, den a power of ten.
RECURSIVE FractionDigits(_, _)
FractionDigits(r, den) ==
    IF r = 0 THEN <<>>
    ELSE NatDigits((r * 10) \div den) \o FractionDigits((r * 10) % den, den)

\* Number.prototype.toString, and toFixed(0) on a whole number, for the
\* magnitudes explored (no exponent notation).
NumberToString(a) ==
    IF a.kind = "nan" THEN <<"N", "a", "N">>
    ELSE IF a.kind = "inf"
    THEN (IF a.num < 0 THEN <<"-">> ELSE <<>>) \o InfinityText
    ELSE LET m == IF a.num < 0 THEN 0 - a.num ELSE a.num
             whole == NatDigits(m \div a.den)
             frac == FractionDigits(m % a.den, a.den)
         IN (IF a.num < 0 THEN <<"-">> ELSE <<>>)
                \o whole \o (IF frac = <<>> THEN <<>> ELSE <<".">> \o frac)

\* ------------------------------------------------------------------ ConfigService

\* safeGet: a failed read yields an undefined setting, whose `?.value` is
\* undefined.
safeGet(read) == IF read = ReadFails THEN Undefined ELSE read

\* clamp of getConcurrencyLimit
ConcurrencyMin == 1
ConcurrencyMax == 25
DefaultConcurrencyLimit == 10
clamp(n) == NumMax(Num(ConcurrencyMin), NumMin(Num(ConcurrencyMax), n))

IsUsableNumber(p) == p.kind = "num"

\* A primary value that is no number sends the call straight to the default.
getConcurrencyLimitSkippingEnv(primaryRead, ORCH_CONCURRENCY_LIMIT, defaultValue) ==
    LET raw == Trim(OrElse(safeGet(primaryRead), <<>>))
        envRaw == Trim(OrElse(ORCH_CONCURRENCY_LIMIT, <<>>))
    IN IF raw # <<>> /\ IsUsableNumber(JsNumber(raw))
       THEN clamp(Frac(JsNumber(raw).num, JsNumber(raw).den))
       ELSE IF raw = <<>> /\ envRaw # <<>> /\ IsUsableNumber(JsNumber(envRaw))
       THEN clamp(Frac(JsNumber(envRaw).num, JsNumber(envRaw).den))
       ELSE clamp(Num(defaultValue))

\* getConcurrencyLimit(defaultValue): the primary value, else
\* ORCH_CONCURRENCY_LIMIT, else the default; always clamped.
getConcurrencyLimit(primaryRead, ORCH_CONCURRENCY_LIMIT, defaultValue) ==
    LET raw == Trim(OrElse(safeGet(primaryRead), <<>>))
        envRaw == Trim(OrElse(ORCH_CONCURRENCY_LIMIT, <<>>))
    IN IF raw # <<>> /\ IsUsableNumber(JsNumber(raw))
       THEN clamp(Frac(JsNumber(raw).num, JsNumber(raw).den))
       ELSE IF envRaw # <<>> /\ IsUsableNumber(JsNumber(envRaw))
       THEN clamp(Frac(JsNumber(envRaw).num, JsNumber(envRaw).den))
       ELSE clamp(Num(defaultValue))

\* The outcome of a call that may throw.
Returned(v) == [kind |-> "return", value |-> v, error |-> <<>>]
Thrown(msg) == [kind |-> "throw", value |-> <<>>, error |-> msg]

\* Error messages and other opaque tokens are plain strings; a field that is
\* not set holds Absent.
Absent == "(absent)"
MissingJobNameMessage == "Missing CONTAINERAPPS_JOB_NAME (or App Config key ContainerApps:JobName)"

\* Neither value is trimmed.
getContainerAppsJobNameUntrimmed(primaryRead, CONTAINERAPPS_JOB_NAME) ==
    LET value == OrElse(safeGet(primaryRead), <<>>)
        envValue == OrElse(CONTAINERAPPS_JOB_NAME, <<>>)
    IN IF value # <<>> THEN Returned(value)
       ELSE IF envValue = <<>> THEN Thrown(MissingJobNameMessage)
       ELSE Returned(envValue)

\* getContainerAppsJobName
getContainerAppsJobName(primaryRead, CONTAINERAPPS_JOB_NAME) ==
    LET value == Trim(OrElse(safeGet(primaryRead), <<>>))
        envValue == Trim(OrElse(CONTAINERAPPS_JOB_NAME, <<>>))
    IN IF value # <<>> THEN Returned(value)
       ELSE IF envValue = <<>> THEN Thrown(MissingJobNameMessage)
       ELSE Returned(envValue)

\* String.prototype.split(","): the pieces between the commas.
RECURSIVE SplitComma(_)
SplitComma(s) ==
    LET i == IndexOf(s, ",")
    IN IF i = -1 THEN <<s>>
       ELSE <<SubSeq(s, 1, i)>> \o SplitComma(SubSeq(s, i + 2, Len(s)))

RECURSIVE MapTrim(_)
MapTrim(xs) == IF xs = <<>> THEN <<>> ELSE <<Trim(Head(xs))>> \o MapTrim(Tail(xs))

\* filter(Boolean) on strings: drops the empty ones.
RECURSIVE FilterNonEmpty(_)
FilterNonEmpty(xs) ==
    IF xs = <<>> THEN <<>>
    ELSE IF Head(xs) = <<>> THEN FilterNonEmpty(Tail(xs))
    ELSE <<Head(xs)>> \o FilterNonEmpty(Tail(xs))

\* raw.split(",").map(trim).filter(Boolean)
ParseList(raw) == FilterNonEmpty(MapTrim(SplitComma(raw)))

\* "prod,stage,qa" and "web,mobile"
DefaultEnvironments ==
    <<"p", "r", "o", "d", ",", "s", "t", "a", "g", "e", ",", "q", "a">>
DefaultPlatforms == <<"w", "e", "b", ",", "m", "o", "b", "i", "l", "e">>

\* platforms.map((platform) => ({ env, platform }))
RECURSIVE RowOf(_, _)
RowOf(env, platforms) ==
    IF platforms = <<>> THEN <<>>
    ELSE <<[env |-> env, platform |-> Head(platforms)]>> \o RowOf(env, Tail(platforms))

\* The cells enumerated platform-major.
CrossProductPlatformMajor(environments, platforms) ==
    [k \in 1..(Len(environments) * Len(platforms)) |->
        [env |-> environments[((k - 1) % Len(environments)) + 1],
         platform |-> platforms[((k - 1) \div Len(environments)) + 1]]]

\* environments.flatMap((env) => platforms.map(...))
RECURSIVE CrossProduct(_, _)
CrossProduct(environments, platforms) ==
    IF environments = <<>> THEN <<>>
    ELSE RowOf(Head(environments), platforms) \o CrossProduct(Tail(environments), platforms)

\* A failed read sends only its own list to the environment variable.
getTestMatrixPerKeyFallback(envRead, platformRead, TEST_ENVIRONMENTS, TEST_PLATFORMS) ==
    CrossProduct(
        ParseList(OrElse(OrElse(safeGet(envRead), TEST_ENVIRONMENTS), DefaultEnvironments)),
        ParseList(OrElse(OrElse(safeGet(platformRead), TEST_PLATFORMS), DefaultPlatforms)))

\* getTestMatrix / getTestMatrixFromAppConfig: either primary read throwing
\* sends both lists to the environment variables and the defaults.
getTestMatrix(envRead, platformRead, TEST_ENVIRONMENTS, TEST_PLATFORMS) ==
    IF envRead = ReadFails \/ platformRead = ReadFails
    THEN CrossProduct(
            ParseList(OrElse(TEST_ENVIRONMENTS, DefaultEnvironments)),
            ParseList(OrElse(TEST_PLATFORMS, DefaultPlatforms)))
    ELSE CrossProduct(
            ParseList(OrElse(OrElse(envRead, TEST_ENVIRONMENTS), DefaultEnvironments)),
            ParseList(OrElse(OrElse(platformRead, TEST_PLATFORMS), DefaultPlatforms)))

\* getContainerConfigBase, the image: primary value, else CONTAINER_IMAGE,
\* trimmed; an empty result is undefined.
getContainerImage(imageRead, CONTAINER_IMAGE) ==
    LET image == Trim(OrElse(OrElse(safeGet(imageRead), CONTAINER_IMAGE), <<>>))
    IN IF image = <<>> THEN Undefined ELSE image

\* "1.0" and "2.0", the literal defaults of cpu and memoryGB
DefaultCpuText == <<"1", ".", "0">>
DefaultMemoryText == <<"2", ".", "0">>

\* One failed read sends all three settings to the environment variables.
getContainerConfigBaseAllOrNothing(settings, env) ==
    IF ReadFails \in {settings.image, settings.cpu, settings.memoryGB}
    THEN [image |-> getContainerImage(Undefined, env.CONTAINER_IMAGE),
          cpu |-> parseFloat(OrElse(env.CONTAINER_CPU, DefaultCpuText)),
          memoryGB |-> parseFloat(OrElse(env.CONTAINER_MEMORY_GB, DefaultMemoryText))]
    ELSE [image |-> getContainerImage(settings.image, env.CONTAINER_IMAGE),
          cpu |-> parseFloat(OrElse(OrElse(settings.cpu, env.CONTAINER_CPU),
                                    DefaultCpuText)),
          memoryGB |-> parseFloat(OrElse(OrElse(settings.memoryGB,
                                                env.CONTAINER_MEMORY_GB),
                                         DefaultMemoryText))]

\* getContainerConfigBase (lines 135-160). settings is what the primary source
\* reads as for each key, env the process environment. safeGet turns a failed
\* read into an undefined setting, so the catch block is never entered.
getContainerConfigBase(settings, env) ==
    [image |-> getContainerImage(settings.image, env.CONTAINER_IMAGE),
     cpu |-> parseFloat(OrElse(OrElse(safeGet(settings.cpu), env.CONTAINER_CPU),
                               DefaultCpuText)),
     memoryGB |-> parseFloat(OrElse(OrElse(safeGet(settings.memoryGB),
                                           env.CONTAINER_MEMORY_GB),
                                    DefaultMemoryText))]

\* parseBool (lines 353-359)
TrueTexts == {<<"t", "r", "u", "e">>, <<"1">>, <<"y", "e", "s">>, <<"y">>}
FalseTexts == {<<"f", "a", "l", "s", "e">>, <<"0">>, <<"n", "o">>, <<"n">>}
parseBool(value, defaultValue) ==
    IF value = Undefined THEN defaultValue
    ELSE LET v == ToLowerCase(Trim(value))
         IN IF v \in TrueTexts THEN TRUE
            ELSE IF v \in FalseTexts THEN FALSE
            ELSE defaultValue

\* getNetworkConfig (lines 197-233), the enabled flag: the primary value
\* unless it is undefined (`??`), then NETWORK_ENABLED, then true. The names
\* of the network, used for logging only, are left out.
getNetworkConfig(settings, env) ==
    [defined |-> TRUE,
     enabled |-> parseBool(Nullish(safeGet(settings.networkEnabled), env.NETWORK_ENABLED),
                           TRUE)]

\* The network field of a container configuration that has none.
NetworkUndefined == [defined |-> FALSE, enabled |-> FALSE]

\* isValidEnvVarName: /^[A-Za-z_][A-Za-z0-9_]*$/
LetterChars ==
    {"A", "B", "C", "D", "E", "F", "G", "H", "I", "J", "K", "L", "M",
     "N", "O", "P", "Q", "R", "S", "T", "U", "V", "W", "X", "Y", "Z",
     "a", "b", "c", "d", "e", "f", "g", "h", "i", "j", "k", "l", "m",
     "n", "o", "p", "q", "r", "s", "t", "u", "v", "w", "x", "y", "z"}

isValidEnvVarName(name) ==
    /\ name # <<>>
    /\ Head(name) \in LetterChars \cup {"_"}
    /\ \A i \in 2..Len(name) : name[i] \in LetterChars \cup DigitChars \cup {"_"}

KeyENV == <<"E", "N", "V">>
KeyENV_LABEL == <<"E", "N", "V", "_", "L", "A", "B", "E", "L">>
KeyPLATFORM == <<"P", "L", "A", "T", "F", "O", "R", "M">>
KeyRUN_ID == <<"R", "U", "N", "_", "I", "D">>
KeyBUILD_NUMBER == <<"B", "U", "I", "L", "D", "_", "N", "U", "M", "B", "E", "R">>
KeyAPP_CONFIG_ENDPOINT == <<"A", "P", "P", "_", "C", "O", "N", "F", "I", "G", "_", "E", "N", "D", "P", "O", "I", "N", "T">>

\* The reserved set of getRunnerEnvPassthroughMap.
ConfigReserved == {KeyENV, KeyENV_LABEL, KeyPLATFORM, KeyRUN_ID}

\* A string map is the sequence of its [name, value] entries in insertion
\* order (the order Object.entries yields).
HasKey(m, k) == \E i \in 1..Len(m) : m[i].name = k
Lookup(m, k) == m[CHOOSE i \in 1..Len(m) : m[i].name = k].value
KeyProto == <<"_", "_", "p", "r", "o", "t", "o", "_", "_">>

\* m[k] = v on an object literal: an existing key keeps its place, a new key
\* goes last. Assigning a string to "__proto__" runs the setter inherited from
\* Object.prototype, which ignores a value that is neither an object nor null:
\* no property is created.
SetKey(m, k, v) ==
    IF k = KeyProto THEN m
    ELSE IF HasKey(m, k)
    THEN [i \in 1..Len(m) |-> IF m[i].name = k THEN [name |-> k, value |-> v] ELSE m[i]]
    ELSE Append(m, [name |-> k, value |-> v])

\* A JSON value is its type with its text: [type |-> "string" | "number" |
\* "boolean" | "null", text |-> the string itself, or the literal as written].
JsonString(text) == [type |-> "string", text |-> text]
JsonNumber(text) == [type |-> "number", text |-> text]
JsonNull == [type |-> "null", text |-> <<"n", "u", "l", "l">>]

\* val === undefined || val === null ? "" : String(val) (line 328). The
\* numbers explored are written the way String() prints them.
valueToString(val) == IF val.type = "null" THEN <<>> ELSE val.text

\* The loop of getRunnerEnvPassthroughMap over Object.entries(parsedObj).
RECURSIVE FilterPassthrough(_, _)
FilterPassthrough(entries, out) ==
    IF entries = <<>> THEN out
    ELSE LET e == Head(entries)
         IN IF ~isValidEnvVarName(e.name) \/ e.name \in ConfigReserved
            THEN FilterPassthrough(Tail(entries), out)
            ELSE FilterPassthrough(Tail(entries),
                                   SetKey(out, e.name, valueToString(e.value)))

PassthroughInvalidJsonMessage == "RUNNER_ENV_PASSTHROUGH must be a valid JSON object."
PassthroughNotObjectMessage == "RUNNER_ENV_PASSTHROUGH must be a JSON object (key/value map)."
MissingEndpointMessage == "Missing required environment variable: APP_CONFIG_ENDPOINT"

\* The endpoint is injected when the map has none, and never overridden.
getRunnerEnvPassthroughMapInjectOnly(RUNNER_ENV_PASSTHROUGH, APP_CONFIG_ENDPOINT) ==
    LET orchestratorEndpoint == Trim(OrElse(APP_CONFIG_ENDPOINT, <<>>))
        raw == RUNNER_ENV_PASSTHROUGH
        parsedObj == IF raw.kind = "object" THEN raw.entries ELSE <<>>
        out == FilterPassthrough(parsedObj, <<>>)
    IN IF orchestratorEndpoint = <<>> THEN Thrown(MissingEndpointMessage)
       ELSE IF raw.kind = "invalid" THEN Thrown(PassthroughInvalidJsonMessage)
       ELSE IF raw.kind \in {"null", "array", "primitive"}
       THEN Thrown(PassthroughNotObjectMessage)
       ELSE IF ~HasKey(out, KeyAPP_CONFIG_ENDPOINT)
       THEN Returned(SetKey(out, KeyAPP_CONFIG_ENDPOINT, orchestratorEndpoint))
       ELSE Returned(out)

\* getRunnerEnvPassthroughMap. RUNNER_ENV_PASSTHROUGH is given by what
\* JSON.parse makes of it: kind "absent" (unset or blank), "invalid" (JSON.parse
\* throws), "null", "array", "primitive", or "object" with its entries in
\* order, each a name with a JSON value.
getRunnerEnvPassthroughMap(RUNNER_ENV_PASSTHROUGH, APP_CONFIG_ENDPOINT) ==
    LET orchestratorEndpoint == Trim(OrElse(APP_CONFIG_ENDPOINT, <<>>))
        raw == RUNNER_ENV_PASSTHROUGH
        parsedObj == IF raw.kind = "object" THEN raw.entries ELSE <<>>
        out == FilterPassthrough(parsedObj, <<>>)
    IN IF orchestratorEndpoint = <<>> THEN Thrown(MissingEndpointMessage)
       ELSE IF raw.kind = "invalid" THEN Thrown(PassthroughInvalidJsonMessage)
       ELSE IF raw.kind \in {"null", "array", "primitive"}
       THEN Thrown(PassthroughNotObjectMessage)
       ELSE IF ~HasKey(out, KeyAPP_CONFIG_ENDPOINT)
               \/ Lookup(out, KeyAPP_CONFIG_ENDPOINT) = <<>>
               \/ Lookup(out, KeyAPP_CONFIG_ENDPOINT) # orchestratorEndpoint
       THEN Returned(SetKey(out, KeyAPP_CONFIG_ENDPOINT, orchestratorEndpoint))
       ELSE Returned(out)

\* getContainerConfig (lines 123-133): the base settings, the network intent,
\* then the passthrough map, whose failure is the call's failure. network is
\* undefined unless enabled; runnerEnv is undefined (here: empty) when the map
\* has no key.
getContainerConfig(settings, env) ==
    LET base == getContainerConfigBase(settings, env)
        network == getNetworkConfig(settings, env)
        runnerEnv == getRunnerEnvPassthroughMap(env.RUNNER_ENV_PASSTHROUGH,
                                                env.APP_CONFIG_ENDPOINT)
    IN IF runnerEnv.kind = "throw" THEN runnerEnv
       ELSE Returned([image |-> base.image, cpu |-> base.cpu,
                      memoryGB |-> base.memoryGB,
                      network |-> IF network.enabled THEN network ELSE NetworkUndefined,
                      runnerEnv |-> runnerEnv.value])

\* ------------------------------------------------------------------ ContainerService

MissingImageMessage == "Missing runner image. Set CONTAINER_IMAGE (or AppConfig key Container:Image)."

\* Any image value is passed on, absent and blank ones included.
requireTestAutomationRunnerImageUnchecked(image) == Returned(OrElse(image, <<>>))

\* requireTestAutomationRunnerImage
requireTestAutomationRunnerImage(image) ==
    LET v == Trim(OrElse(image, <<>>))
    IN IF v = <<>> THEN Thrown(MissingImageMessage) ELSE Returned(v)

UnknownName == <<"u", "n", "k", "n", "o", "w", "n">>

\* String.prototype.lastIndexOf for a one-character needle, 0-based, -1 if
\* absent.
RECURSIVE LastIndexFrom(_, _, _)
LastIndexFrom(s, c, i) ==
    IF i < 1 THEN -1
    ELSE IF s[i] = c THEN i - 1
    ELSE LastIndexFrom(s, c, i - 1)
LastIndexOf(s, c) == LastIndexFrom(s, c, Len(s))

\* The last colon separates a tag wherever the last slash is.
tryExtractImageTagAnyColon(image) ==
    LET v == Trim(image)
        lastColon == LastIndexOf(v, ":")
        tag == Trim(SubSeq(v, lastColon + 2, Len(v)))
    IN IF v = <<>> THEN Undefined
       ELSE IF IndexOf(v, "@") # -1 THEN Undefined
       ELSE IF lastColon > -1
       THEN (IF tag = <<>> THEN Undefined ELSE tag)
       ELSE Undefined

\* tryExtractImageTag: "repo:tag" -> "tag"; a digest reference, a reference
\* without a colon after its last slash, or an empty tag -> undefined.
tryExtractImageTag(image) ==
    LET v == Trim(image)
        lastSlash == LastIndexOf(v, "/")
        lastColon == LastIndexOf(v, ":")
        tag == Trim(SubSeq(v, lastColon + 2, Len(v)))
    IN IF v = <<>> THEN Undefined
       ELSE IF IndexOf(v, "@") # -1 THEN Undefined
       ELSE IF lastColon > lastSlash
       THEN (IF tag = <<>> THEN Undefined ELSE tag)
       ELSE Undefined

\* What the Container:Image setting reads as in a run of executeTests
\* (ReadFails: the read throws), and what CONTAINER_IMAGE holds.
ImageReads == {ReadFails, Undefined, <<"r", "e", "p", "o", ":", "v", "1">>}
ContainerImageVars == {Undefined, <<" ">>}

\* Container:Image and CONTAINER_IMAGE when the methods are called on their own.
ImageTexts ==
    {Undefined, <<" ">>, <<"r", "e", "p", "o", ":", "v", "1">>, <<" ", "r", "e", "g", ":", "5", "0", "0", "0", "/", "r", "e", "p", "o", " ">>, <<"r", "e", "p", "o", "@", "s", "h", "a", "2", "5", "6", ":", "a", "b">>}

\* The image references requireTestAutomationRunnerImage hands on, from the
\* settings above.
RunnerImages ==
    {Trim(OrElse(i, <<>>)) : i \in (ImageReads \cup ContainerImageVars \cup ImageTexts) \ {ReadFails}}

\* this.tryExtractImageTag(image) (line 161) for each of these images.
ImageTags[image \in RunnerImages] == tryExtractImageTag(image)

\* BUILD_NUMBER is not reserved.
ContainerReservedWithoutBuildNumber == {KeyENV, KeyENV_LABEL, KeyPLATFORM, KeyRUN_ID}

\* The reserved names of buildExecutionEnv (line 173).
ContainerReserved == {KeyENV, KeyENV_LABEL, KeyPLATFORM, KeyRUN_ID, KeyBUILD_NUMBER}

\* Every passthrough entry is pushed, reserved or not.
PushPassthroughUnfiltered(env, entries) == env \o entries

\* The loop of buildExecutionEnv over Object.entries(runnerEnv) (lines 172-178).
RECURSIVE PushPassthrough(_, _)
PushPassthrough(env, entries) ==
    IF entries = <<>> THEN env
    ELSE IF Head(entries).name \in ContainerReserved
    THEN PushPassthrough(env, Tail(entries))
    ELSE PushPassthrough(Append(env, Head(entries)), Tail(entries))

\* String.prototype.split("-")[0]: what precedes the first dash.
FirstGroup(uuid) ==
    IF IndexOf(uuid, "-") = -1 THEN uuid ELSE SubSeq(uuid, 1, IndexOf(uuid, "-"))

\* The passthrough entries come first, the per-execution entries after them.
buildExecutionEnvPassthroughFirst(testConfig, runnerEnv, image, uuid) ==
    LET env == <<[name |-> KeyENV, value |-> testConfig.env],
                 [name |-> KeyENV_LABEL, value |-> testConfig.env],
                 [name |-> KeyPLATFORM, value |-> testConfig.platform],
                 [name |-> KeyRUN_ID, value |-> FirstGroup(uuid)]>>
        buildNumber == ImageTags[image]
        withBuild == IF buildNumber # Undefined
                     THEN Append(env, [name |-> KeyBUILD_NUMBER, value |-> buildNumber])
                     ELSE env
    IN PushPassthrough(<<>>, runnerEnv) \o withBuild

\* buildExecutionEnv: the four per-execution entries, BUILD_NUMBER when the
\* image has a tag, then the passthrough entries that are not reserved. uuid
\* is what randomUUID() returned; an undefined runnerEnv is the empty map.
buildExecutionEnv(testConfig, runnerEnv, image, uuid) ==
    LET env == <<[name |-> KeyENV, value |-> testConfig.env],
                 [name |-> KeyENV_LABEL, value |-> testConfig.env],
                 [name |-> KeyPLATFORM, value |-> testConfig.platform],
                 [name |-> KeyRUN_ID, value |-> FirstGroup(uuid)]>>
        buildNumber == ImageTags[image]
        withBuild == IF buildNumber # Undefined
                     THEN Append(env, [name |-> KeyBUILD_NUMBER, value |-> buildNumber])
                     ELSE env
    IN PushPassthrough(withBuild, runnerEnv)

MemoryFloor == JsFinite(25, 100)
GiSuffix == <<"G", "i">>

\* The memory string without the floor.
toGiWithoutFloor(memoryGB) == NumberToString(memoryGB) \o GiSuffix

\* toGi (lines 222-227): Math.max(0.25, memoryGB), printed by toFixed(0) when
\* it is a whole number and by toString() otherwise, then "Gi".
toGi(memoryGB) ==
    LET gb == JsMax(MemoryFloor, memoryGB)
        str == IF JsIsInteger(gb) THEN NatDigits(gb.num \div gb.den)
               ELSE NumberToString(gb)
    IN str \o GiSuffix

\* The catch block's result leaves the error out.
FailureResultWithoutError(jobName, testConfig, message) ==
    [hole |-> FALSE, jobName |-> jobName, executionName |-> UnknownName,
     executionId |-> Absent, config |-> testConfig, success |-> FALSE,
     error |-> Absent, startedAt |-> Absent]

\* The JobExecutionResult of the catch block (lines 119-125).
FailureResult(jobName, testConfig, message) ==
    [hole |-> FALSE, jobName |-> jobName, executionName |-> UnknownName,
     executionId |-> Absent, config |-> testConfig, success |-> FALSE,
     error |-> message, startedAt |-> Absent]

\* The result is named after the execution, not after the job.
SuccessResultNamedAfterExecution(jobName, testConfig, execution) ==
    [hole |-> FALSE, jobName |-> OrElse(execution.name, UnknownName),
     executionName |-> OrElse(execution.name, UnknownName),
     executionId |-> execution.id, config |-> testConfig, success |-> TRUE,
     error |-> Absent, startedAt |-> "now"]

\* The JobExecutionResult of lines 105-112.
SuccessResult(jobName, testConfig, execution) ==
    [hole |-> FALSE, jobName |-> jobName,
     executionName |-> OrElse(execution.name, UnknownName),
     executionId |-> execution.id, config |-> testConfig, success |-> TRUE,
     error |-> Absent, startedAt |-> "now"]

\* The image is required outside the try block.
startTestExecutionBeginUncaught(jobName, testConfig, containerConfig, uuid) ==
    LET image == requireTestAutomationRunnerImage(containerConfig.image)
    IN IF image.kind = "throw"
       THEN [kind |-> "throw",
             result |-> FailureResult(jobName, testConfig, image.error),
             image |-> Undefined, env |-> <<>>, cpu |-> JsNaN, memory |-> <<>>]
       ELSE [kind |-> "request",
             result |-> FailureResult(jobName, testConfig, Absent),
             image |-> image.value,
             env |-> buildExecutionEnv(testConfig, containerConfig.runnerEnv,
                                       image.value, uuid),
             cpu |-> containerConfig.cpu,
             memory |-> toGi(containerConfig.memoryGB)]

\* startTestExecution up to its await (lines 65-101): the image is required
\* first; without it the catch block returns a failed result and no request is
\* sent. Otherwise the env list is built and the start request, with the
\* image, the resources and the env list, is handed to the client. uuid is what randomUUID()
\* returns.
startTestExecutionBegin(jobName, testConfig, containerConfig, uuid) ==
    LET image == requireTestAutomationRunnerImage(containerConfig.image)
    IN IF image.kind = "throw"
       THEN [kind |-> "result",
             result |-> FailureResult(jobName, testConfig, image.error),
             image |-> Undefined, env |-> <<>>, cpu |-> JsNaN, memory |-> <<>>]
       ELSE [kind |-> "request",
             result |-> FailureResult(jobName, testConfig, Absent),
             image |-> image.value,
             env |-> buildExecutionEnv(testConfig, containerConfig.runnerEnv,
                                       image.value, uuid),
             cpu |-> containerConfig.cpu,
             memory |-> toGi(containerConfig.memoryGB)]

\* A failed start is rethrown instead of being turned into a result.
startTestExecutionSettleRethrowing(jobName, testConfig, outcome) ==
    IF outcome.ok
    THEN Returned(SuccessResult(jobName, testConfig, outcome))
    ELSE Thrown(outcome.message)

\* startTestExecution after the client call settles or throws (lines 103-126).
\* outcome is [ok |-> TRUE, name, id] or [ok |-> FALSE, message].
startTestExecutionSettle(jobName, testConfig, outcome) ==
    IF outcome.ok
    THEN Returned(SuccessResult(jobName, testConfig, outcome))
    ELSE Returned(FailureResult(jobName, testConfig, outcome.message))

\* ------------------------------------------------------------------ inputs

\* The cells a custom matrix is made of. Duplicates are legal.
CustomCells ==
    {[env |-> <<"q", "a">>, platform |-> <<"w", "e", "b">>], [env |-> <<"p", "r", "o", "d">>, platform |-> <<"w", "e", "b">>]}

RECURSIVE SeqsUpTo(_, _)
SeqsUpTo(S, n) ==
    IF n = 0 THEN {<<>>}
    ELSE LET shorter == SeqsUpTo(S, n - 1)
         IN shorter \cup {Append(s, x) : s \in shorter, x \in S}

\* The testConfigs argument of executeTests: not given, or an array.
CustomMatrices ==
    {[given |-> FALSE, cells |-> <<>>]}
        \cup {[given |-> TRUE, cells |-> c] : c \in SeqsUpTo(CustomCells, MaxCells)}

\* What the primary source and the environment hold for the matrix lists.
EnvironmentsReads == {ReadFails, Undefined, <<"q", "a", ",", "p", "r", "o", "d">>}
PlatformsReads == {Undefined, <<"w", "e", "b">>}
TestEnvironmentsVars == {Undefined, <<" ", "q", "a", " ">>, <<" ", ",", " ">>}
TestPlatformsVars == {Undefined, <<"w", "e", "b">>}

KeySUITE == <<"S", "U", "I", "T", "E">>

\* ... for RUNNER_ENV_PASSTHROUGH and the orchestrator's own endpoint,
PassthroughVars ==
    {[kind |-> "invalid", entries |-> <<>>],
     [kind |-> "array", entries |-> <<>>],
     [kind |-> "object",
      entries |-> <<[name |-> KeyENV, value |-> JsonString(<<"x">>)],
                    [name |-> KeySUITE, value |-> JsonString(<<"s", "m", "o", "k", "e">>)]>>]}
EndpointVars == {<<"h", "t", "t", "p", "s", ":", "/", "/", "c", "f", "g">>}

\* The primary source and the environment of a run: the resources and the
\* network intent are set nowhere, and so take their defaults.
RunSettings(imageRead) ==
    [image |-> imageRead, cpu |-> Undefined, memoryGB |-> Undefined,
     networkEnabled |-> Undefined]
RunEnv(containerImage, passthrough, endpoint) ==
    [CONTAINER_IMAGE |-> containerImage, CONTAINER_CPU |-> Undefined,
     CONTAINER_MEMORY_GB |-> Undefined, NETWORK_ENABLED |-> Undefined,
     RUNNER_ENV_PASSTHROUGH |-> passthrough, APP_CONFIG_ENDPOINT |-> endpoint]

\* ... for the job name,
JobNameReads == {ReadFails, Undefined, <<" ", "j", "o", "b", "-", "a", " ">>}
JobNameVars == {Undefined, <<" ">>}

\* ... and for the concurrency limit.
LimitReads == {ReadFails, Undefined, <<"2">>}
LimitVars == {Undefined, <<"1">>, <<"2", ".", "5">>, <<"a", "b", "c">>}

\* What randomUUID() may return.
RandomUUIDs ==
    {<<"0", "a", "1", "b", "2", "c", "3", "d", "-", "4", "e", "5", "f", "-", "4", "0", "0", "0", "-", "8", "0", "0", "0", "-", "0", "0", "0", "0", "0", "0", "0", "0", "0", "0", "0", "1">>,
     <<"9", "f", "8", "e", "7", "d", "6", "c", "-", "5", "b", "4", "a", "-", "4", "0", "0", "0", "-", "8", "0", "0", "0", "-", "0", "0", "0", "0", "0", "0", "0", "0", "0", "0", "0", "2">>}

\* The runs of executeTests explored are those where randomUUID() returns this
\* value; startTestExecution called on its own is explored with every value.
RunUUIDs == {CHOOSE u \in RandomUUIDs : TRUE}

\* What the control plane answers to the k-th start request of a run: an
\* execution, or a failure.
JobNotFoundMessage == "The Resource 'Microsoft.App/jobs/runner' under resource group 'rg' was not found."
ThrottledMessage == "Too many requests"
ExecutionName(k) == <<"e", "x", "-">> \o <<CHOOSE c \in DigitChars : DigitVal(c) = k % 10>>
StartOutcomes(k) ==
    {[ok |-> TRUE, name |-> ExecutionName(k), id |-> "id", message |-> Absent],
     [ok |-> FALSE, name |-> Undefined, id |-> Absent, message |-> JobNotFoundMessage],
     [ok |-> FALSE, name |-> Undefined, id |-> Absent, message |-> ThrottledMessage]}

\* ------------------------------------------------------------------ state

VARIABLES
    testConfigs,       \* executeTests' argument
    pc,                \* where executeTests is
    finalTestConfigs,  \* the matrix that is dispatched
    usingCustom,
    containerConfig,
    jobName,
    concurrencyLimit,
    laneCount,         \* the length of `lanes` in runWithConcurrencyLimit
    index,             \* the shared cursor
    lanes,             \* the lanes created so far, each at its await or done
    results,           \* the results array; a slot not yet assigned is a hole
    starts,            \* the indices startTestExecution was called for, in order
    calls,             \* the start requests handed to the client, in order, each
                       \* "inflight", "resolved", or "failed" (rejected or thrown)
    writes,            \* per results slot, how many times it was assigned
    outcome,           \* what executeTests returned or threw
    configCalls,       \* per ConfigService method, what each call of it yielded
    probe              \* a service method called on its own: inputs and result

\* The state of a run of executeTests.
runVars == <<testConfigs, pc, finalTestConfigs, usingCustom, containerConfig, jobName,
             concurrencyLimit, laneCount, index, lanes, results, starts, calls, writes,
             outcome, configCalls>>

vars == <<runVars, probe>>

Hole ==
    [hole |-> TRUE, jobName |-> Undefined, executionName |-> Undefined,
     executionId |-> Absent, config |-> [env |-> Undefined, platform |-> Undefined],
     success |-> FALSE, error |-> Absent, startedAt |-> Absent]

NoContainerConfig ==
    [image |-> Undefined, cpu |-> JsNaN, memoryGB |-> JsNaN,
     network |-> NetworkUndefined, runnerEnv |-> <<>>]

NoOutcome ==
    [kind |-> "none", error |-> Absent, success |-> FALSE, message |-> <<>>,
     totalExecutions |-> 0, successful |-> 0, failed |-> 0, executions |-> <<>>,
     hint |-> FALSE]

NoConfigCalls ==
    [getTestMatrix |-> <<>>, getContainerConfig |-> <<>>,
     getContainerAppsJobName |-> <<>>, getConcurrencyLimit |-> <<>>]

\* No service method has been called on its own.
NoProbe == [fn |-> "none"]

\* executeTests is about to be called.
RunInit ==
    /\ pc = "resolveMatrix"
    /\ finalTestConfigs = <<>>
    /\ usingCustom = FALSE
    /\ containerConfig = NoContainerConfig
    /\ jobName = Undefined
    /\ concurrencyLimit = Num(0)
    /\ laneCount = 0
    /\ index = 0
    /\ lanes = <<>>
    /\ results = <<>>
    /\ starts = <<>>
    /\ calls = <<>>
    /\ writes = <<>>
    /\ outcome = NoOutcome
    /\ configCalls = NoConfigCalls

Init ==
    /\ testConfigs \in CustomMatrices
    /\ RunInit
    /\ probe = NoProbe

\* ------------------------------------------------------------------ OrchestrationService

\* The error is recorded and the run carries on to the dispatch.
ThrowSwallowed(message) ==
    /\ pc' = "runWithConcurrencyLimit"
    /\ outcome' = [NoOutcome EXCEPT !.kind = "throw", !.error = message]

\* catch (err) { error(...); throw err; } of executeTests
Throw(message) ==
    /\ pc' = "thrown"
    /\ outcome' = [NoOutcome EXCEPT !.kind = "throw", !.error = message]

\* An empty array counts as a custom matrix.
isUsingCustomWhenGiven(tc) == tc.given

\* const usingCustom = !!(testConfigs && testConfigs.length > 0) (line 51)
isUsingCustom(tc) == tc.given /\ Len(tc.cells) > 0

\* 1) Resolve test matrix (lines 50-58): the custom matrix, or what
\* getTestMatrix returns. The matrices explored are those of at most MaxCells
\* cells.
ResolveMatrix ==
    /\ pc = "resolveMatrix"
    /\ usingCustom' = isUsingCustom(testConfigs)
    /\ IF usingCustom'
       THEN /\ finalTestConfigs' = testConfigs.cells
            /\ UNCHANGED configCalls
       ELSE \E envRead \in EnvironmentsReads, platformRead \in PlatformsReads,
               testEnvironments \in TestEnvironmentsVars,
               testPlatforms \in TestPlatformsVars :
               LET matrix == getTestMatrix(envRead, platformRead,
                                           testEnvironments, testPlatforms)
               IN /\ Len(matrix) <= MaxCells
                  /\ finalTestConfigs' = matrix
                  /\ configCalls' = [configCalls EXCEPT
                                        !.getTestMatrix = Append(@, matrix)]
    /\ pc' = "getContainerConfig"
    /\ UNCHANGED <<probe, testConfigs, containerConfig, jobName, concurrencyLimit, laneCount,
                   index, lanes, results, starts, calls, writes, outcome>>

\* 2) Runner execution configuration (line 61)
GetContainerConfig ==
    /\ pc = "getContainerConfig"
    /\ \E imageRead \in ImageReads, containerImage \in ContainerImageVars,
          passthrough \in PassthroughVars, endpoint \in EndpointVars :
          LET r == getContainerConfig(RunSettings(imageRead),
                                      RunEnv(containerImage, passthrough, endpoint))
          IN /\ configCalls' = [configCalls EXCEPT !.getContainerConfig = Append(@, r)]
             /\ IF r.kind = "throw"
                THEN Throw(r.error) /\ UNCHANGED containerConfig
                ELSE /\ containerConfig' = r.value
                     /\ pc' = "getContainerAppsJobName"
                     /\ UNCHANGED outcome
    /\ UNCHANGED <<probe, testConfigs, finalTestConfigs, usingCustom, jobName, concurrencyLimit,
                   laneCount, index, lanes, results, starts, calls, writes>>

\* 3) Runner Job name (line 64)
GetContainerAppsJobName ==
    /\ pc = "getContainerAppsJobName"
    /\ \E primaryRead \in JobNameReads, envVar \in JobNameVars :
          LET r == getContainerAppsJobName(primaryRead, envVar)
          IN /\ configCalls' = [configCalls EXCEPT
                                   !.getContainerAppsJobName = Append(@, r)]
             /\ IF r.kind = "throw"
                THEN Throw(r.error) /\ UNCHANGED jobName
                ELSE /\ jobName' = r.value
                     /\ pc' = "getConcurrencyLimit"
                     /\ UNCHANGED outcome
    /\ UNCHANGED <<probe, testConfigs, finalTestConfigs, usingCustom, containerConfig,
                   concurrencyLimit, laneCount, index, lanes, results, starts, calls, writes>>

\* 4) Concurrency limit (line 67)
GetConcurrencyLimit ==
    /\ pc = "getConcurrencyLimit"
    /\ \E primaryRead \in LimitReads, envVar \in LimitVars :
          LET n == getConcurrencyLimit(primaryRead, envVar, DefaultConcurrencyLimit)
          IN /\ concurrencyLimit' = n
             /\ configCalls' = [configCalls EXCEPT !.getConcurrencyLimit = Append(@, n)]
    /\ pc' = "runWithConcurrencyLimit"
    /\ UNCHANGED <<probe, testConfigs, finalTestConfigs, usingCustom, containerConfig, jobName,
                   laneCount, index, lanes, results, starts, calls, writes, outcome>>

InvalidArrayLengthMessage == "RangeError: Invalid array length"

\* One lane per item, whatever the limit.
lanesLengthIgnoringLimit(itemCount, limitArg) == Returned(itemCount)

\* The limit is used as it comes, without the floor of 1.
lanesLengthWithoutFloor(itemCount, limitArg) ==
    LET n == NumMin(limitArg, Num(itemCount))
    IN IF IsInteger(n) /\ IntValue(n) >= 0
       THEN Returned(IntValue(n))
       ELSE Thrown(InvalidArrayLengthMessage)

\* A single lane, whatever the limit.
lanesLengthSingle(itemCount, limitArg) == Returned(IF itemCount = 0 THEN 0 ELSE 1)

\* The length of the lanes array, new Array(Math.min(limit, items.length))
\* (lines 171 and 175): the Array constructor throws a RangeError unless its
\* argument is an integer in 0 .. 2^32 - 1. The argument never exceeds
\* items.length, itself an array length, so only the other two conditions can
\* fail.
lanesLength(itemCount, limitArg) ==
    LET limit == NumMax(Num(1), limitArg)
        n == NumMin(limit, Num(itemCount))
    IN IF IsInteger(n) /\ IntValue(n) >= 0
       THEN Returned(IntValue(n))
       ELSE Thrown(InvalidArrayLengthMessage)

\* runWithConcurrencyLimit up to the creation of the lanes array (lines 171-175).
EnterRunWithConcurrencyLimit ==
    /\ pc = "runWithConcurrencyLimit"
    /\ LET n == lanesLength(Len(finalTestConfigs), concurrencyLimit)
       IN IF n.kind = "throw"
          THEN Throw(n.error) /\ UNCHANGED <<laneCount, results, writes, index>>
          ELSE /\ laneCount' = n.value
               /\ results' = [i \in 1..Len(finalTestConfigs) |-> Hole]
               /\ writes' = [i \in 1..Len(finalTestConfigs) |-> 0]
               /\ index' = 0
               /\ pc' = "running"
               /\ UNCHANGED outcome
    /\ UNCHANGED <<probe, configCalls, testConfigs, finalTestConfigs, usingCustom, containerConfig, jobName,
                   concurrencyLimit, lanes, starts, calls>>

\* The cursor is read and not advanced.
nextIndexNotAdvanced(i) == i

\* The cursor skips an index at every claim.
nextIndexSkipping(i) == i + 2

\* const current = index++ (line 177): the cursor after a claim.
nextIndex(i) == i + 1

\* The result goes to the first free slot, in completion order.
storeResultInCompletionOrder(rs, current, value) ==
    IF \E i \in 1..Len(rs) : rs[i].hole
    THEN [rs EXCEPT ![CHOOSE i \in 1..Len(rs) :
                        rs[i].hole /\ \A j \in 1..(i - 1) : ~rs[j].hole] = value]
    ELSE rs

\* results[current] = ... (line 179)
storeResult(rs, current, value) == [rs EXCEPT ![current + 1] = value]

\* A lane parked at its await, or finished.
Lane(st, current, pending) == [st |-> st, current |-> current, pending |-> pending]

\* The lane's loop without its exit test: past the end the worker is called
\* with an undefined item, startTestExecution dereferences it in its try block
\* and again in its catch block, and the lane rejects.
laneTurnWithoutExit(current, sync, uuid) ==
    IF current >= Len(finalTestConfigs)
    THEN [lane |-> Lane("rejected", current, Hole),
          starts |-> Append(starts, current), calls |-> calls]
    ELSE LET cell == finalTestConfigs[current + 1]
             begin == startTestExecutionBegin(jobName, cell, containerConfig, uuid)
             call == [idx |-> current,
                      status |-> IF sync = "throws" THEN "failed" ELSE "inflight",
                      image |-> begin.image, env |-> begin.env,
                      cpu |-> begin.cpu, memory |-> begin.memory]
             caught == startTestExecutionSettle(jobName, cell,
                          [ok |-> FALSE, name |-> Undefined, id |-> Absent,
                           message |-> ThrottledMessage])
             lane == IF begin.kind = "result"
                     THEN Lane("resumable", current, begin.result)
                     ELSE IF begin.kind = "throw"
                     THEN Lane("rejected", current, Hole)
                     ELSE IF sync = "pending"
                     THEN Lane("awaiting", current, Hole)
                     ELSE IF caught.kind = "return"
                     THEN Lane("resumable", current, caught.value)
                     ELSE Lane("rejected", current, Hole)
         IN [lane |-> lane,
             starts |-> Append(starts, current),
             calls |-> IF begin.kind = "request" THEN Append(calls, call) ELSE calls]

\* One turn of a lane's loop up to its await (lines 177-179): claim the next
\* index; past the end the lane returns; otherwise the worker is called, which
\* runs startTestExecution up to its own await. sync is what the client does
\* when it is handed the request: "pending" (a promise comes back) or "throws".
\* uuid is what randomUUID() returns to this call.
\* Yields the lane's new state and the lists of worker calls and of requests.
laneTurn(current, sync, uuid) ==
    IF current >= Len(finalTestConfigs)
    THEN [lane |-> Lane("done", current, Hole), starts |-> starts, calls |-> calls]
    ELSE LET cell == finalTestConfigs[current + 1]
             begin == startTestExecutionBegin(jobName, cell, containerConfig, uuid)
             call == [idx |-> current,
                      status |-> IF sync = "throws" THEN "failed" ELSE "inflight",
                      image |-> begin.image, env |-> begin.env,
                      cpu |-> begin.cpu, memory |-> begin.memory]
             caught == startTestExecutionSettle(jobName, cell,
                          [ok |-> FALSE, name |-> Undefined, id |-> Absent,
                           message |-> ThrottledMessage])
             lane == IF begin.kind = "result"
                     THEN Lane("resumable", current, begin.result)
                     ELSE IF begin.kind = "throw"
                     THEN Lane("rejected", current, Hole)
                     ELSE IF sync = "pending"
                     THEN Lane("awaiting", current, Hole)
                     ELSE IF caught.kind = "return"
                     THEN Lane("resumable", current, caught.value)
                     ELSE Lane("rejected", current, Hole)
         IN [lane |-> lane,
             starts |-> Append(starts, current),
             calls |-> IF begin.kind = "request" THEN Append(calls, call) ELSE calls]

SyncChoices == {"pending", "throws"}

\* The map callback of line 175 creating the next lane, which runs at once up
\* to its first await.
SpawnLane ==
    /\ pc = "running"
    /\ Len(lanes) < laneCount
    /\ \E sync \in SyncChoices, uuid \in RunUUIDs :
          LET turn == laneTurn(index, sync, uuid)
          IN /\ lanes' = Append(lanes, turn.lane)
             /\ starts' = turn.starts
             /\ calls' = turn.calls
    /\ index' = nextIndex(index)
    /\ UNCHANGED <<probe, configCalls, testConfigs, pc, finalTestConfigs, usingCustom, containerConfig, jobName,
                   concurrencyLimit, laneCount, results, writes, outcome>>

\* The control plane settles the k-th start request, and startTestExecution
\* runs on to its return (lines 103-126), which settles the worker's promise
\* that the lane holding that index awaits.
SettleStart(k) ==
    /\ k \in 1..Len(calls)
    /\ Len(lanes) = laneCount
    /\ calls[k].status = "inflight"
    /\ \E o \in StartOutcomes(k), l \in 1..Len(lanes) :
          LET cell == finalTestConfigs[calls[k].idx + 1]
              r == startTestExecutionSettle(jobName, cell, o)
          IN /\ lanes[l].st = "awaiting"
             /\ lanes[l].current = calls[k].idx
             /\ calls' = [calls EXCEPT ![k].status =
                             IF o.ok THEN "resolved" ELSE "failed"]
             /\ lanes' = [lanes EXCEPT ![l] =
                             IF r.kind = "return"
                             THEN Lane("resumable", calls[k].idx, r.value)
                             ELSE Lane("rejected", calls[k].idx, Hole)]
    /\ UNCHANGED <<probe, configCalls, testConfigs, pc, finalTestConfigs, usingCustom, containerConfig, jobName,
                   concurrencyLimit, laneCount, index, results, starts, writes, outcome>>

\* A lane resumes from its await: it stores the result in its slot (line 179)
\* and takes its next turn.
ResumeLane(l) ==
    /\ l \in 1..Len(lanes)
    /\ Len(lanes) = laneCount
    /\ lanes[l].st = "resumable"
    /\ results' = storeResult(results, lanes[l].current, lanes[l].pending)
    /\ writes' = [writes EXCEPT ![lanes[l].current + 1] = @ + 1]
    /\ \E sync \in SyncChoices, uuid \in RunUUIDs :
          LET turn == laneTurn(index, sync, uuid)
          IN /\ lanes' = [lanes EXCEPT ![l] = turn.lane]
             /\ starts' = turn.starts
             /\ calls' = turn.calls
    /\ index' = nextIndex(index)
    /\ UNCHANGED <<probe, configCalls, testConfigs, pc, finalTestConfigs, usingCustom, containerConfig, jobName,
                   concurrencyLimit, laneCount, outcome>>

\* Number.prototype.toString for a natural number.
RECURSIVE ToDecimal(_)
ToDecimal(n) ==
    LET d == <<CHOOSE c \in DigitChars : DigitVal(c) = n % 10>>
    IN IF n < 10 THEN d ELSE ToDecimal(n \div 10) \o d

AllStartedMessage == <<"A", "l", "l", " ", "e", "x", "e", "c", "u", "t", "i", "o", "n", "s", " ", "s", "t", "a", "r", "t", "e", "d", " ", "s", "u", "c", "c", "e", "s", "s", "f", "u", "l", "l", "y">>
FailedSuffix == <<" ", "e", "x", "e", "c", "u", "t", "i", "o", "n", "(", "s", ")", " ", "f", "a", "i", "l", "e", "d", " ", "t", "o", " ", "s", "t", "a", "r", "t">>

\* The text of an error message ((r.error || "") for a result without one).
JobNotFoundText ==
    <<"T", "h", "e", " ", "R", "e", "s", "o", "u", "r", "c", "e", " ", "'", "M", "i",
      "c", "r", "o", "s", "o", "f", "t", ".", "A", "p", "p", "/", "j", "o", "b", "s",
      "/", "r", "u", "n", "n", "e", "r", "'", " ", "u", "n", "d", "e", "r", " ", "r",
      "e", "s", "o", "u", "r", "c", "e", " ", "g", "r", "o", "u", "p", " ", "'", "r",
      "g", "'", " ", "w", "a", "s", " ", "n", "o", "t", " ", "f", "o", "u", "n", "d",
      ".">>
ThrottledText ==
    <<"T", "o", "o", " ", "m", "a", "n", "y", " ", "r", "e", "q", "u", "e", "s", "t",
      "s">>
MissingImageText ==
    <<"M", "i", "s", "s", "i", "n", "g", " ", "r", "u", "n", "n", "e", "r", " ", "i",
      "m", "a", "g", "e", ".", " ", "S", "e", "t", " ", "C", "O", "N", "T", "A", "I",
      "N", "E", "R", "_", "I", "M", "A", "G", "E", " ", "(", "o", "r", " ", "A", "p",
      "p", "C", "o", "n", "f", "i", "g", " ", "k", "e", "y", " ", "C", "o", "n", "t",
      "a", "i", "n", "e", "r", ":", "I", "m", "a", "g", "e", ")", ".">>
ErrorText(message) ==
    CASE message = JobNotFoundMessage -> JobNotFoundText
      [] message = ThrottledMessage -> ThrottledText
      [] message = MissingImageMessage -> MissingImageText
      [] OTHER -> <<>>

PatternJobs == <<"m", "i", "c", "r", "o", "s", "o", "f", "t", ".", "a", "p", "p", "/", "j", "o", "b", "s">>
PatternNotFound == <<"n", "o", "t", " ", "f", "o", "u", "n", "d">>
PatternResourceNotFound == <<"r", "e", "s", "o", "u", "r", "c", "e", "n", "o", "t", "f", "o", "u", "n", "d">>

\* The predicate of lines 123-125 on a lower-cased error text.
matchesJobNotFound(e) ==
    /\ Includes(e, PatternJobs)
    /\ (Includes(e, PatternNotFound) \/ Includes(e, PatternResourceNotFound))

\* The error fields a result can carry.
ResultErrors == {Absent, JobNotFoundMessage, ThrottledMessage, MissingImageMessage}

\* For each of them, whether its lower-cased text (line 121) satisfies the
\* predicate of lines 123-125.
errorMatches[message \in ResultErrors] ==
    matchesJobNotFound(ToLowerCase(ErrorText(message)))

\* looksLikeJobNotFound (lines 121-126): errors.some(...)
looksLikeJobNotFound(rs) ==
    \E i \in 1..Len(rs) : ~rs[i].hole /\ errorMatches[rs[i].error]

\* Whether the operator hint of lines 128-133 is logged.
hintLogged(rs) ==
    LET failed == Cardinality({i \in 1..Len(rs) : ~rs[i].hole /\ ~rs[i].success})
        allFailed == Len(rs) > 0 /\ failed = Len(rs)
    IN allFailed /\ looksLikeJobNotFound(rs)

\* The success flag set when anything started.
summarizeSuccessIfAnyStarted(rs) ==
    LET successful == Cardinality({i \in 1..Len(rs) : ~rs[i].hole /\ rs[i].success})
        failed == Cardinality({i \in 1..Len(rs) : ~rs[i].hole /\ ~rs[i].success})
    IN [kind |-> "return", error |-> Absent,
        success |-> (successful > 0),
        message |-> IF failed = 0 THEN AllStartedMessage
                    ELSE ToDecimal(failed) \o FailedSuffix,
        totalExecutions |-> Len(rs),
        successful |-> successful,
        failed |-> failed,
        executions |-> rs,
        hint |-> hintLogged(rs)]

\* A report without executions is a failure.
summarizeEmptyFails(rs) ==
    LET successful == Cardinality({i \in 1..Len(rs) : ~rs[i].hole /\ rs[i].success})
        failed == Cardinality({i \in 1..Len(rs) : ~rs[i].hole /\ ~rs[i].success})
    IN [kind |-> "return", error |-> Absent,
        success |-> (failed = 0 /\ Len(rs) > 0),
        message |-> IF failed = 0 THEN AllStartedMessage
                    ELSE ToDecimal(failed) \o FailedSuffix,
        totalExecutions |-> Len(rs),
        successful |-> successful,
        failed |-> failed,
        executions |-> rs,
        hint |-> hintLogged(rs)]

\* 6) Summarize (lines 99-150). filter skips the holes of a sparse array.
summarize(rs) ==
    LET successful == Cardinality({i \in 1..Len(rs) : ~rs[i].hole /\ rs[i].success})
        failed == Cardinality({i \in 1..Len(rs) : ~rs[i].hole /\ ~rs[i].success})
    IN [kind |-> "return", error |-> Absent,
        success |-> (failed = 0),
        message |-> IF failed = 0 THEN AllStartedMessage
                    ELSE ToDecimal(failed) \o FailedSuffix,
        totalExecutions |-> Len(rs),
        successful |-> successful,
        failed |-> failed,
        executions |-> rs,
        hint |-> hintLogged(rs)]

LaneRejectedMessage == "a worker rejected"

\* await Promise.all(lanes) (line 183): it fulfils once every lane has
\* returned, and rejects as soon as one lane has rejected, whatever the other
\* lanes are doing. executeTests then summarizes and returns, or rethrows.
allSettled(ls) ==
    IF \E l \in 1..Len(ls) : ls[l].st = "rejected" THEN "rejected"
    ELSE IF \A l \in 1..Len(ls) : ls[l].st = "done" THEN "fulfilled"
    ELSE "pending"

AwaitAll ==
    /\ pc = "running"
    /\ Len(lanes) = laneCount
    /\ allSettled(lanes) # "pending"
    /\ IF allSettled(lanes) = "rejected"
       THEN Throw(LaneRejectedMessage)
       ELSE /\ pc' = "returned"
            /\ outcome' = summarize(results)
    /\ UNCHANGED <<probe, configCalls, testConfigs, finalTestConfigs, usingCustom, containerConfig, jobName,
                   concurrencyLimit, laneCount, index, lanes, results, starts, calls, writes>>

Next ==
    \/ ResolveMatrix
    \/ GetContainerConfig
    \/ GetContainerAppsJobName
    \/ GetConcurrencyLimit
    \/ EnterRunWithConcurrencyLimit
    \/ SpawnLane
    \/ \E k \in 1..Len(calls) : SettleStart(k)
    \/ \E l \in 1..Len(lanes) : ResumeLane(l)
    \/ AwaitAll

Spec == Init /\ [][Next]_vars

\* The event loop runs every continuation that is ready, and the control
\* plane settles every start request it was handed.
FairSpec ==
    /\ Spec
    /\ WF_vars(SpawnLane)
    /\ \A k \in 1..MaxCells : WF_vars(SettleStart(k))
    /\ \A l \in 1..MaxCells : WF_vars(ResumeLane(l))
    /\ WF_vars(AwaitAll)

\* ------------------------------------------------------------------ runWithConcurrencyLimit called on its own

\* runWithConcurrencyLimit called with a matrix, any limit (executeTests only
\* passes getConcurrencyLimit's clamped value), and startTestExecution as the
\* worker, with a job name and a container config that has a usable image.
PoolLimits == {Num(-1), Num(0), Frac(1, 2), Num(1), Num(2), Num(3)}
PoolJobName == <<"j", "o", "b", "-", "a">>
PoolContainerConfig ==
    [image |-> <<"r", "e", "p", "o", ":", "v", "1">>, cpu |-> JsFinite(1, 1),
     memoryGB |-> JsFinite(2, 1), network |-> NetworkUndefined, runnerEnv |-> <<>>]

PoolInit ==
    /\ testConfigs \in {[given |-> TRUE, cells |-> c] : c \in SeqsUpTo(CustomCells, MaxCells)}
    /\ pc = "runWithConcurrencyLimit"
    /\ finalTestConfigs = testConfigs.cells
    /\ usingCustom = isUsingCustom(testConfigs)
    /\ containerConfig = PoolContainerConfig
    /\ jobName = PoolJobName
    /\ concurrencyLimit \in PoolLimits
    /\ laneCount = 0
    /\ index = 0
    /\ lanes = <<>>
    /\ results = <<>>
    /\ starts = <<>>
    /\ calls = <<>>
    /\ writes = <<>>
    /\ outcome = NoOutcome
    /\ configCalls = NoConfigCalls
    /\ probe = NoProbe

\* The promise beginStart returned for the k-th start request never settles:
\* the await of line 78 never resumes, nor does the lane's await of line 179.
\* One request of a run at most is left like this.
HangStart(k) ==
    /\ k \in 1..Len(calls)
    /\ Len(lanes) = laneCount
    /\ calls[k].status = "inflight"
    /\ \A j \in 1..Len(calls) : calls[j].status # "hung"
    /\ calls' = [calls EXCEPT ![k].status = "hung"]
    /\ UNCHANGED <<probe, configCalls, testConfigs, pc, finalTestConfigs, usingCustom,
                   containerConfig, jobName, concurrencyLimit, laneCount, index, lanes,
                   results, starts, writes, outcome>>

PoolNext ==
    \/ EnterRunWithConcurrencyLimit
    \/ SpawnLane
    \/ \E k \in 1..Len(calls) : SettleStart(k)
    \/ \E k \in 1..Len(calls) : HangStart(k)
    \/ \E l \in 1..Len(lanes) : ResumeLane(l)
    \/ AwaitAll

PoolSpec == PoolInit /\ [][PoolNext]_vars

\* The event loop runs every continuation that is ready, and the control
\* plane settles every start request except the one that hangs.
FairPoolSpec ==
    /\ PoolSpec
    /\ WF_vars(SpawnLane)
    /\ \A k \in 1..MaxCells : WF_vars(SettleStart(k))
    /\ \A l \in 1..MaxCells : WF_vars(ResumeLane(l))
    /\ WF_vars(AwaitAll)

\* ------------------------------------------------------------------ the RUN_ID values of one run

\* randomUUID() hands out version-4 UUIDs, 122 random bits each; the values it
\* returns within one run are taken to be pairwise distinct, and any UUID not
\* handed out yet may come next. The UUIDs explored: one per cell with the
\* same first group and different last groups, and one with another first
\* group.
UuidEnding == <<"-", "4", "e", "5", "f", "-", "4", "0", "0", "0", "-", "8", "0", "0", "0", "-", "0", "0", "0", "0", "0", "0", "0", "0", "0", "0", "0">>
FreshUUIDs ==
    {<<"0", "a", "1", "b", "2", "c", "3", "d">> \o UuidEnding \o ToDecimal(n % 10) : n \in 1..MaxCells}
        \cup {<<"9", "f", "8", "e", "7", "d", "6", "c">> \o UuidEnding \o <<"0">>}

\* The UUIDs randomUUID() returned so far in this run, in the order of the calls.
Issued == IF probe.fn = "randomUUID" THEN probe.issued ELSE <<>>
NotIssued == {u \in FreshUUIDs : \A k \in 1..Len(Issued) : Issued[k] # u}

\* What randomUUID() can return to the lane turn that claims index current;
\* a turn past the end of the list does not call it.
NextUUIDs(current) == IF current < Len(finalTestConfigs) THEN NotIssued ELSE {Undefined}
issue(current, uuid) ==
    IF current < Len(finalTestConfigs)
    THEN [probe EXCEPT !.issued = Append(@, uuid)]
    ELSE probe

\* runWithConcurrencyLimit over a matrix of equal cells, with two lanes or one.
RunIdCell == [env |-> <<"q", "a">>, platform |-> <<"w", "e", "b">>]
RunIdLimits == {Num(1), Num(2)}

RunIdInit ==
    /\ testConfigs \in {[given |-> TRUE, cells |-> c] : c \in SeqsUpTo({RunIdCell}, MaxCells)}
    /\ pc = "runWithConcurrencyLimit"
    /\ finalTestConfigs = testConfigs.cells
    /\ usingCustom = isUsingCustom(testConfigs)
    /\ containerConfig = PoolContainerConfig
    /\ jobName = PoolJobName
    /\ concurrencyLimit \in RunIdLimits
    /\ laneCount = 0
    /\ index = 0
    /\ lanes = <<>>
    /\ results = <<>>
    /\ starts = <<>>
    /\ calls = <<>>
    /\ writes = <<>>
    /\ outcome = NoOutcome
    /\ configCalls = NoConfigCalls
    /\ probe = [fn |-> "randomUUID", issued |-> <<>>]

\* SpawnLane, with randomUUID() returning any UUID it has not returned yet.
SpawnLaneFresh ==
    /\ pc = "running"
    /\ Len(lanes) < laneCount
    /\ \E sync \in SyncChoices, uuid \in NextUUIDs(index) :
          LET turn == laneTurn(index, sync, uuid)
          IN /\ lanes' = Append(lanes, turn.lane)
             /\ starts' = turn.starts
             /\ calls' = turn.calls
             /\ probe' = issue(index, uuid)
    /\ index' = nextIndex(index)
    /\ UNCHANGED <<configCalls, testConfigs, pc, finalTestConfigs, usingCustom, containerConfig, jobName,
                   concurrencyLimit, laneCount, results, writes, outcome>>

\* ResumeLane, with randomUUID() returning any UUID it has not returned yet.
ResumeLaneFresh(l) ==
    /\ l \in 1..Len(lanes)
    /\ Len(lanes) = laneCount
    /\ lanes[l].st = "resumable"
    /\ results' = storeResult(results, lanes[l].current, lanes[l].pending)
    /\ writes' = [writes EXCEPT ![lanes[l].current + 1] = @ + 1]
    /\ \E sync \in SyncChoices, uuid \in NextUUIDs(index) :
          LET turn == laneTurn(index, sync, uuid)
          IN /\ lanes' = [lanes EXCEPT ![l] = turn.lane]
             /\ starts' = turn.starts
             /\ calls' = turn.calls
             /\ probe' = issue(index, uuid)
    /\ index' = nextIndex(index)
    /\ UNCHANGED <<configCalls, testConfigs, pc, finalTestConfigs, usingCustom, containerConfig, jobName,
                   concurrencyLimit, laneCount, outcome>>

RunIdNext ==
    \/ EnterRunWithConcurrencyLimit
    \/ SpawnLaneFresh
    \/ \E k \in 1..Len(calls) : SettleStart(k)
    \/ \E l \in 1..Len(lanes) : ResumeLaneFresh(l)
    \/ AwaitAll

RunIdSpec == RunIdInit /\ [][RunIdNext]_vars

\* ------------------------------------------------------------------ methods called on their own

\* Each ConfigService method, and startTestExecution, called once on its own
\* as the unit tests call them, over more settings than a run of executeTests
\* is given above.

\* Orchestration:ConcurrencyLimit and ORCH_CONCURRENCY_LIMIT
LimitTexts ==
    {Undefined, <<>>, <<" ">>, <<"a", "b", "c">>, <<"I", "n", "f", "i", "n", "i", "t", "y">>,
     <<"0">>, <<"1", "0", "0">>, <<"1", "2">>, <<" ", "7", " ">>, <<"2", ".", "5">>, <<"-", "3">>}
DefaultValues == {DefaultConcurrencyLimit, 0, 30}

\* ContainerApps:JobName and CONTAINERAPPS_JOB_NAME
JobNameTexts ==
    {Undefined, <<>>, <<" ", " ">>, <<" ", "j", "o", "b", "-", "a", " ">>, <<"j", "o", "b", "-", "b">>}

\* TestMatrix:Environments, TestMatrix:Platforms, TEST_ENVIRONMENTS and
\* TEST_PLATFORMS
ListTexts ==
    {Undefined, <<>>, <<",">>, <<" ", ",", " ">>, <<"q", "a", ",", "p", "r", "o", "d">>, <<" ", "q", "a", " ", ",", " ", ",", "s", "t", "a", "g", "e", " ">>,
     <<"w", "e", "b", ",", "m", "o", "b", "i", "l", "e">>}

KeyPW_WORKERS == <<"P", "W", "_", "W", "O", "R", "K", "E", "R", "S">>

\* RUNNER_ENV_PASSTHROUGH
PassthroughTexts ==
    {[kind |-> "absent", entries |-> <<>>],
     [kind |-> "invalid", entries |-> <<>>],
     [kind |-> "null", entries |-> <<>>],
     [kind |-> "array", entries |-> <<>>],
     [kind |-> "primitive", entries |-> <<>>],
     [kind |-> "object",
      entries |->
          <<>>],
     [kind |-> "object",
      entries |->
          <<[name |-> KeyPW_WORKERS, value |-> JsonNumber(<<"5">>)],
            [name |-> KeySUITE, value |-> JsonString(<<"s", "m", "o", "k", "e">>)],
            [name |-> <<"D", "E", "B", "U", "G">>, value |-> JsonNull],
            [name |-> <<"_", "o", "k", "1">>, value |-> JsonString(<<>>)]>>],
     [kind |-> "object",
      entries |->
          <<[name |-> KeyENV, value |-> JsonString(<<"x">>)],
            [name |-> KeyENV_LABEL, value |-> JsonString(<<"y">>)],
            [name |-> KeyPLATFORM, value |-> JsonString(<<"z">>)],
            [name |-> KeyRUN_ID, value |-> JsonString(<<"r">>)],
            [name |-> KeyBUILD_NUMBER, value |-> JsonString(<<"9">>)],
            [name |-> KeySUITE, value |-> JsonString(<<"s", "m", "o", "k", "e">>)]>>],
     [kind |-> "object",
      entries |->
          <<[name |-> <<"1", "B", "A", "D">>, value |-> JsonString(<<"v">>)],
            [name |-> <<"A", "-", "B">>, value |-> JsonString(<<"v">>)],
            [name |-> <<>>, value |-> JsonString(<<"v">>)],
            [name |-> KeySUITE, value |-> JsonString(<<"s", "m", "o", "k", "e">>)]>>],
     [kind |-> "object",
      entries |->
          <<[name |-> KeyAPP_CONFIG_ENDPOINT, value |-> JsonString(<<"h", "t", "t", "p", "s", ":", "/", "/", "e", "v", "i", "l">>)],
            [name |-> KeySUITE, value |-> JsonString(<<"s", "m", "o", "k", "e">>)]>>],
     [kind |-> "object",
      entries |->
          <<[name |-> KeySUITE, value |-> JsonString(<<"s", "m", "o", "k", "e">>)],
            [name |-> KeyAPP_CONFIG_ENDPOINT, value |-> JsonString(<<"h", "t", "t", "p", "s", ":", "/", "/", "c", "f", "g">>)]>>],
     [kind |-> "object",
      entries |->
          <<[name |-> KeyAPP_CONFIG_ENDPOINT, value |-> JsonString(<<>>)]>>],
     [kind |-> "object",
      entries |->
          <<[name |-> KeyProto, value |-> JsonString(<<"x">>)],
            [name |-> KeySUITE, value |-> JsonString(<<"s", "m", "o", "k", "e">>)]>>]}

\* APP_CONFIG_ENDPOINT
EndpointTexts == {Undefined, <<" ">>, <<"h", "t", "t", "p", "s", ":", "/", "/", "c", "f", "g">>, <<" ", "h", "t", "t", "p", "s", ":", "/", "/", "c", "f", "g", " ">>}

\* The runnerEnv maps a caller of startTestExecution may build by hand.
RunnerEnvMaps ==
    {<<>>,
     <<[name |-> KeyENV, value |-> <<"x">>],
       [name |-> KeySUITE, value |-> <<"s", "m", "o", "k", "e">>],
       [name |-> KeyENV_LABEL, value |-> <<"y">>],
       [name |-> KeyPLATFORM, value |-> <<"z">>],
       [name |-> KeyRUN_ID, value |-> <<"r">>],
       [name |-> KeyBUILD_NUMBER, value |-> <<"b">>],
       [name |-> KeyAPP_CONFIG_ENDPOINT, value |-> <<"h", "t", "t", "p", "s", ":", "/", "/", "c", "f", "g">>]>>,
     <<[name |-> KeySUITE, value |-> <<"s", "m", "o", "k", "e">>]>>}

CallGetConcurrencyLimit ==
    /\ probe = NoProbe
    /\ \E primaryRead \in LimitTexts \cup {ReadFails}, envVar \in LimitTexts,
          defaultValue \in DefaultValues :
          probe' = [fn |-> "getConcurrencyLimit", primaryRead |-> primaryRead,
                    envVar |-> envVar, defaultValue |-> defaultValue,
                    ret |-> Returned(getConcurrencyLimit(primaryRead, envVar, defaultValue))]
    /\ UNCHANGED runVars

CallGetContainerAppsJobName ==
    /\ probe = NoProbe
    /\ \E primaryRead \in JobNameTexts \cup {ReadFails}, envVar \in JobNameTexts :
          probe' = [fn |-> "getContainerAppsJobName", primaryRead |-> primaryRead,
                    envVar |-> envVar,
                    ret |-> getContainerAppsJobName(primaryRead, envVar)]
    /\ UNCHANGED runVars

CallGetTestMatrix ==
    /\ probe = NoProbe
    /\ \E envRead \in ListTexts \cup {ReadFails}, platformRead \in ListTexts \cup {ReadFails},
          testEnvironments \in ListTexts, testPlatforms \in ListTexts :
          probe' = [fn |-> "getTestMatrix", envRead |-> envRead,
                    platformRead |-> platformRead,
                    testEnvironments |-> testEnvironments,
                    testPlatforms |-> testPlatforms,
                    ret |-> Returned(getTestMatrix(envRead, platformRead,
                                                   testEnvironments, testPlatforms))]
    /\ UNCHANGED runVars

\* Container:CPU, CONTAINER_CPU, Container:MemoryGB and CONTAINER_MEMORY_GB
CpuSettingTexts == {ReadFails, Undefined, <<>>, <<"0", ".", "5">>}
CpuVarTexts == {Undefined, <<"a", "b", "c">>, <<"4">>}
MemorySettingTexts == {ReadFails, Undefined, <<>>, <<"1", ".", "5">>, <<"0">>}
MemoryVarTexts == {Undefined, <<"a", "b", "c">>, <<"2", ".", "0">>}

\* Network:Enabled and NETWORK_ENABLED
NetworkSettingTexts ==
    {ReadFails, Undefined, <<>>, <<"f", "a", "l", "s", "e">>, <<"T", "R", "U", "E">>}
NetworkVarTexts == {Undefined, <<"f", "a", "l", "s", "e">>, <<" ", "N", "o", " ">>, <<"1">>}

PlainEndpoint == <<"h", "t", "t", "p", "s", ":", "/", "/", "c", "f", "g">>
NoPassthrough == [kind |-> "absent", entries |-> <<>>]

\* What getContainerConfig is called with: the image and the passthrough
\* settings varied, or the image and the resources, or the network intent.
ContainerConfigInputs ==
    {[settings |-> RunSettings(i), env |-> RunEnv(ci, p, e)] :
        i \in ImageTexts \cup {ReadFails}, ci \in ImageTexts,
        p \in PassthroughTexts, e \in EndpointTexts}
    \cup
    {[settings |-> [image |-> i, cpu |-> c, memoryGB |-> m, networkEnabled |-> Undefined],
      env |-> [CONTAINER_IMAGE |-> ci, CONTAINER_CPU |-> cc, CONTAINER_MEMORY_GB |-> cm,
               NETWORK_ENABLED |-> Undefined, RUNNER_ENV_PASSTHROUGH |-> NoPassthrough,
               APP_CONFIG_ENDPOINT |-> PlainEndpoint]] :
        i \in ImageReads, ci \in ContainerImageVars \cup {<<"r", "e", "p", "o", ":", "v", "1">>},
        c \in CpuSettingTexts, cc \in CpuVarTexts,
        m \in MemorySettingTexts, cm \in MemoryVarTexts}
    \cup
    {[settings |-> [image |-> Undefined, cpu |-> Undefined, memoryGB |-> Undefined,
                    networkEnabled |-> n],
      env |-> [CONTAINER_IMAGE |-> Undefined, CONTAINER_CPU |-> Undefined,
               CONTAINER_MEMORY_GB |-> Undefined, NETWORK_ENABLED |-> ne,
               RUNNER_ENV_PASSTHROUGH |-> NoPassthrough,
               APP_CONFIG_ENDPOINT |-> PlainEndpoint]] :
        n \in NetworkSettingTexts, ne \in NetworkVarTexts}

CallGetContainerConfig ==
    /\ probe = NoProbe
    /\ \E in \in ContainerConfigInputs :
          probe' = [fn |-> "getContainerConfig", settings |-> in.settings, env |-> in.env,
                    imageRead |-> in.settings.image,
                    containerImage |-> in.env.CONTAINER_IMAGE,
                    passthrough |-> in.env.RUNNER_ENV_PASSTHROUGH,
                    endpoint |-> in.env.APP_CONFIG_ENDPOINT,
                    ret |-> getContainerConfig(in.settings, in.env)]
    /\ UNCHANGED runVars

\* The image references tryExtractImageTag is given; buildExecutionEnv passes
\* it a reference that requireTestAutomationRunnerImage has trimmed.
TagImageTexts ==
    {<<"r", "e", "p", "o", ":", "v", "1">>,
     <<"m", "y", "r", "e", "g", "i", "s", "t", "r", "y", ":", "5", "0", "0", "0", "/", "r", "e", "p", "o", ":", "v", "2">>,
     <<"m", "y", "r", "e", "g", "i", "s", "t", "r", "y", ":", "5", "0", "0", "0", "/", "r", "e", "p", "o">>,
     <<"r", "e", "p", "o", "@", "s", "h", "a", "2", "5", "6", ":", "a", "b", "c", "d">>,
     <<"r", "e", "p", "o">>,
     <<"r", "e", "p", "o", ":">>,
     <<"r", "e", "g", ":", "5", "0", "0", "0", "/", "r", "e", "p", "o", ":">>,
     <<"r", "e", "p", "o", ":", "v", "1", "@", "s", "h", "a", "2", "5", "6", ":", "a", "b">>,
     <<"a", "/", "b", "/", "c", ":", "1", ".", "2", "-", "x">>}

CallTryExtractImageTag ==
    /\ probe = NoProbe
    /\ \E image \in TagImageTexts :
          probe' = [fn |-> "tryExtractImageTag", image |-> image,
                    ret |-> tryExtractImageTag(image)]
    /\ UNCHANGED runVars

\* The memoryGB a caller of startTestExecution may pass: 0, 0.1, 1.5, 2.
MemoryValues == {JsFinite(0, 1), JsFinite(1, 10), JsFinite(15, 10), JsFinite(2, 1)}

\* startTestExecution up to its await, given the container configuration that
\* getContainerConfig has just returned, or one made by hand.
CallStartTestExecution ==
    /\ probe.fn \in {"none", "getContainerConfig"}
    /\ \E testConfig \in CustomCells, uuid \in RandomUUIDs, byHand \in BOOLEAN :
          \E config \in
                IF byHand /\ probe = NoProbe
                THEN {[image |-> i, cpu |-> JsFinite(1, 1), memoryGB |-> g,
                       network |-> NetworkUndefined, runnerEnv |-> m] :
                         i \in ImageTexts, g \in MemoryValues, m \in RunnerEnvMaps}
                ELSE IF ~byHand /\ probe.fn = "getContainerConfig"
                        /\ probe.ret.kind = "return"
                THEN {probe.ret.value}
                ELSE {} :
             probe' = [fn |-> "startTestExecution", testConfig |-> testConfig,
                       containerConfig |-> config, uuid |-> uuid,
                       byHand |-> byHand,
                       endpoint |-> IF byHand THEN Undefined ELSE probe.endpoint,
                       passthrough |-> IF byHand THEN NoPassthrough
                                       ELSE probe.passthrough,
                       ret |-> startTestExecutionBegin(<<"j", "o", "b", "-", "a">>, testConfig,
                                                       config, uuid)]
    /\ UNCHANGED runVars

CallInit ==
    /\ testConfigs = [given |-> FALSE, cells |-> <<>>]
    /\ RunInit
    /\ probe = NoProbe

CallNext ==
    \/ CallGetConcurrencyLimit
    \/ CallGetContainerAppsJobName
    \/ CallGetTestMatrix
    \/ CallGetContainerConfig
    \/ CallStartTestExecution
    \/ CallTryExtractImageTag

CallSpec == CallInit /\ [][CallNext]_vars

\* ------------------------------------------------------------------ main

\* requireEnv(name), given the variable's value (lines 124-128).
requireEnv(name, value) ==
    LET v == Trim(OrElse(value, <<>>))
    IN IF v = <<>> THEN Thrown([text |-> "Missing required environment variable", name |-> name])
       ELSE Returned(v)

DefaultLocation == <<"w", "e", "s", "t", "e", "u", "r", "o", "p", "e">>

\* getAzureConfig (lines 111-119)
getAzureConfig(AZURE_LOCATION, AZURE_SUBSCRIPTION_ID, RESOURCE_GROUP_NAME) ==
    LET location == OrElse(Trim(OrElse(AZURE_LOCATION, <<>>)), DefaultLocation)
        subscriptionId == requireEnv("AZURE_SUBSCRIPTION_ID", AZURE_SUBSCRIPTION_ID)
        resourceGroup == requireEnv("RESOURCE_GROUP_NAME", RESOURCE_GROUP_NAME)
    IN IF subscriptionId.kind = "throw" THEN subscriptionId
       ELSE IF resourceGroup.kind = "throw" THEN resourceGroup
       ELSE Returned([subscriptionId |-> subscriptionId.value,
                      resourceGroup |-> resourceGroup.value, location |-> location])

\* new ConfigService() (configService.ts lines 45-53): the endpoint it keeps.
newConfigService(APP_CONFIG_ENDPOINT) ==
    LET endpoint == Trim(OrElse(APP_CONFIG_ENDPOINT, <<>>))
    IN IF endpoint = <<>>
       THEN Thrown([text |-> "Missing required environment variable",
                    name |-> "APP_CONFIG_ENDPOINT"])
       ELSE Returned(endpoint)

\* TEST_CONFIGS_JSON is held as what JSON.parse makes of it: kind is "absent"
\* (not set), "blank" (white space only), "invalid" (not JSON), "object",
\* "null", "number" (JSON that is no array) or "array", with the array's
\* items. An item is an object with its env and platform fields, or null; a
\* field that is missing holds JsonMissing.
JsonMissing == [type |-> "undefined", text |-> <<>>]
ObjectItem(env, platform) == [type |-> "object", env |-> env, platform |-> platform]
NullItem == [type |-> "null", env |-> JsonMissing, platform |-> JsonMissing]

\* (item as any)?.env and (item as any)?.platform (lines 86-87)
FieldOf(item, name) ==
    IF item.type # "object" THEN JsonMissing
    ELSE IF name = "env" THEN item.env ELSE item.platform

\* typeof v !== "string" || !v.trim() (lines 89 and 92)
NotValidString(v) == v.type # "string" \/ Trim(v.text) = <<>>

\* No custom matrix: undefined.
NoMatrix == [given |-> FALSE, cells |-> <<>>]

\* The map callback of lines 85-97 over the items from the i-th on; the first
\* invalid item throws.
RECURSIVE MapItems(_, _, _)
MapItems(items, i, configs) ==
    IF i > Len(items) THEN Returned(configs)
    ELSE LET env == FieldOf(items[i], "env")
             platform == FieldOf(items[i], "platform")
         IN IF NotValidString(env)
            THEN Thrown([text |-> "Invalid TEST_CONFIGS_JSON item: missing valid 'env'",
                         item |-> i - 1])
            ELSE IF NotValidString(platform)
            THEN Thrown([text |-> "Invalid TEST_CONFIGS_JSON item: missing valid 'platform'",
                         item |-> i - 1])
            ELSE MapItems(items, i + 1,
                          Append(configs, [env |-> Trim(env.text),
                                           platform |-> Trim(platform.text)]))

\* The map callback leaves out an invalid item instead of throwing.
RECURSIVE MapItemsSkippingInvalid(_, _, _)
MapItemsSkippingInvalid(items, i, configs) ==
    IF i > Len(items) THEN Returned(configs)
    ELSE LET env == FieldOf(items[i], "env")
             platform == FieldOf(items[i], "platform")
         IN IF NotValidString(env) \/ NotValidString(platform)
            THEN MapItemsSkippingInvalid(items, i + 1, configs)
            ELSE MapItemsSkippingInvalid(items, i + 1,
                          Append(configs, [env |-> Trim(env.text),
                                           platform |-> Trim(platform.text)]))

\* Invalid items are left out of the matrix.
resolveCustomMatrixFromEnvSkippingInvalid(raw) ==
    IF raw.kind \in {"absent", "blank"} THEN Returned(NoMatrix)
    ELSE IF raw.kind = "invalid"
    THEN Thrown([text |-> "Invalid TEST_CONFIGS_JSON: must be valid JSON"])
    ELSE IF raw.kind # "array"
    THEN Thrown([text |-> "Invalid TEST_CONFIGS_JSON: must be a JSON array of { env, platform } objects"])
    ELSE LET configs == MapItemsSkippingInvalid(raw.items, 1, <<>>)
         IN IF Len(configs.value) > 0
            THEN Returned([given |-> TRUE, cells |-> configs.value])
            ELSE Returned(NoMatrix)

\* resolveCustomMatrixFromEnv (lines 69-99)
resolveCustomMatrixFromEnv(raw) ==
    IF raw.kind \in {"absent", "blank"} THEN Returned(NoMatrix)
    ELSE IF raw.kind = "invalid"
    THEN Thrown([text |-> "Invalid TEST_CONFIGS_JSON: must be valid JSON"])
    ELSE IF raw.kind # "array"
    THEN Thrown([text |-> "Invalid TEST_CONFIGS_JSON: must be a JSON array of { env, platform } objects"])
    ELSE LET configs == MapItems(raw.items, 1, <<>>)
         IN IF configs.kind = "throw" THEN configs
            ELSE IF Len(configs.value) > 0
            THEN Returned([given |-> TRUE, cells |-> configs.value])
            ELSE Returned(NoMatrix)

\* Any report ends the process with code 0.
exitCodeOfAnyReport(result) == IF result.kind = "return" THEN 0 ELSE 1

\* process.exit(result.success ? 0 : 1), and process.exit(1) of the catch
\* block (lines 49-53).
exitCodeOf(result) == IF result.kind = "return" /\ result.success THEN 0 ELSE 1

\* What the environment of main holds.
SubscriptionVars == {Undefined, <<" ">>, <<"s", "u", "b">>}
ResourceGroupVars == {Undefined, <<"r", "g">>}
MainEndpointVars == {Undefined, <<" ">>, PlainEndpoint}
MatrixItems ==
    {ObjectItem(JsonString(<<" ", "q", "a", " ">>), JsonString(<<"w", "e", "b">>)),
     ObjectItem(JsonString(<<"p", "r", "o", "d">>), JsonString(<<" ", "w", "e", "b">>)),
     ObjectItem(JsonString(<<" ">>), JsonString(<<"w", "e", "b">>)),
     ObjectItem(JsonString(<<"q", "a">>), JsonNumber(<<"5">>)),
     ObjectItem(JsonString(<<"q", "a">>), JsonMissing),
     NullItem}
MatrixTexts ==
    {[kind |-> k, items |-> <<>>] : k \in {"absent", "blank", "invalid", "object", "null", "number"}}
        \cup {[kind |-> "array", items |-> s] : s \in SeqsUpTo(MatrixItems, MaxCells)}

NotCalled == [kind |-> "none", value |-> <<>>, error |-> <<>>]
NoExit == -1

\* main is about to be called.
MainInit ==
    /\ testConfigs = NoMatrix
    /\ pc = "main"
    /\ finalTestConfigs = <<>>
    /\ usingCustom = FALSE
    /\ containerConfig = NoContainerConfig
    /\ jobName = Undefined
    /\ concurrencyLimit = Num(0)
    /\ laneCount = 0
    /\ index = 0
    /\ lanes = <<>>
    /\ results = <<>>
    /\ starts = <<>>
    /\ calls = <<>>
    /\ writes = <<>>
    /\ outcome = NoOutcome
    /\ configCalls = NoConfigCalls
    /\ probe = NoProbe

\* main up to its await of executeTests (lines 31-47): the services are
\* constructed and the custom matrix is resolved; a throw of any of them goes
\* to the catch block, which exits with code 1.
MainBegin ==
    /\ pc = "main"
    /\ \E subscription \in SubscriptionVars, resourceGroup \in ResourceGroupVars,
          endpoint \in MainEndpointVars, raw \in MatrixTexts :
          LET azureConfig == getAzureConfig(Undefined, subscription, resourceGroup)
              configService == IF azureConfig.kind = "throw" THEN NotCalled
                               ELSE newConfigService(endpoint)
              customMatrix == IF configService.kind # "return" THEN NotCalled
                              ELSE resolveCustomMatrixFromEnv(raw)
              threw == customMatrix.kind # "return"
          IN /\ probe' = [fn |-> "main", raw |-> raw, azureConfig |-> azureConfig,
                          configService |-> configService, customMatrix |-> customMatrix,
                          exitCode |-> IF threw THEN 1 ELSE NoExit]
             /\ pc' = IF threw THEN "exited" ELSE "resolveMatrix"
             /\ testConfigs' = IF threw THEN testConfigs ELSE customMatrix.value
    /\ UNCHANGED <<finalTestConfigs, usingCustom, containerConfig, jobName, concurrencyLimit,
                   laneCount, index, lanes, results, starts, calls, writes, outcome,
                   configCalls>>

\* main after executeTests returned or threw (lines 47-53).
MainExit ==
    /\ pc \in {"returned", "thrown"}
    /\ probe.fn = "main"
    /\ probe' = [probe EXCEPT !.exitCode = exitCodeOf(outcome)]
    /\ pc' = "exited"
    /\ UNCHANGED <<testConfigs, finalTestConfigs, usingCustom, containerConfig, jobName,
                   concurrencyLimit, laneCount, index, lanes, results, starts, calls, writes,
                   outcome, configCalls>>

MainNext ==
    \/ MainBegin
    \/ ResolveMatrix
    \/ GetContainerConfig
    \/ GetContainerAppsJobName
    \/ GetConcurrencyLimit
    \/ EnterRunWithConcurrencyLimit
    \/ SpawnLane
    \/ \E k \in 1..Len(calls) : SettleStart(k)
    \/ \E l \in 1..Len(lanes) : ResumeLane(l)
    \/ AwaitAll
    \/ MainExit

MainSpec == MainInit /\ [][MainNext]_vars

\* ------------------------------------------------------------------ properties

Ended == pc \in {"returned", "thrown"}
ItemCount == Len(finalTestConfigs)
InFlightCalls == Cardinality({k \in 1..Len(calls) : calls[k].status = "inflight"})
\* The lanes whose worker call has been started and has not been consumed.
BusyLanes == Cardinality({l \in 1..Len(lanes) : lanes[l].st \in {"awaiting", "resumable"}})
AllLanesDone == Len(lanes) = laneCount /\ \A l \in 1..Len(lanes) : lanes[l].st = "done"

\* C1: at every moment of a run the start requests in flight, and the worker
\* calls started and not yet taken up by their lane, number at most
\* max(1, limit) and at most items.length.
C1_BoundedInFlight ==
    /\ InFlightCalls <= BusyLanes
    /\ NumLE(Num(BusyLanes), NumMax(Num(1), concurrencyLimit))
    /\ BusyLanes <= ItemCount

\* A run of three cells under limit 2 with two requests in flight at once.
C1_Witness ==
    /\ concurrencyLimit = Num(2)
    /\ ItemCount = 3
    /\ InFlightCalls = 2

\* C2: the executions list of a returned report has the matrix's length, no
\* unfilled slot, and at every index the result of that index's cell.
C2_IndexCorrespondence ==
    pc = "returned" =>
        /\ Len(outcome.executions) = ItemCount
        /\ \A i \in 1..ItemCount :
              /\ ~outcome.executions[i].hole
              /\ outcome.executions[i].config = finalTestConfigs[i]

\* A returned run of three cells, not all alike, two lanes, where a later
\* cell succeeded and an earlier one failed.
C2_Witness ==
    /\ pc = "returned"
    /\ ItemCount = 3
    /\ laneCount = 2
    /\ finalTestConfigs[1] # finalTestConfigs[2]
    /\ finalTestConfigs[1] = finalTestConfigs[3]
    /\ ~outcome.executions[1].success
    /\ outcome.executions[2].success
    /\ outcome.executions[3].success

\* C3: no index is claimed twice (startTestExecution is called at most once
\* per index, never past the end, and no slot is assigned twice), and a
\* finished run has called it exactly once for every index and assigned every
\* slot exactly once.
C3_ExactlyOncePerIndex ==
    /\ \A a, b \in 1..Len(starts) : a # b => starts[a] # starts[b]
    /\ \A a \in 1..Len(starts) : starts[a] \in 0..(ItemCount - 1)
    /\ \A a, b \in 1..Len(calls) : a # b => calls[a].idx # calls[b].idx
    /\ \A l, m \in 1..Len(lanes) :
          (l # m /\ lanes[l].st # "done" /\ lanes[m].st # "done")
              => lanes[l].current # lanes[m].current
    /\ \A i \in 1..Len(writes) : writes[i] <= 1
    /\ pc = "returned" =>
          /\ Len(starts) = ItemCount
          /\ \A i \in 1..Len(writes) : writes[i] = 1

\* A finished run over a matrix holding the same cell twice, with two lanes.
C3_Witness ==
    /\ pc = "returned"
    /\ ItemCount = 3
    /\ laneCount = 2
    /\ finalTestConfigs[1] = finalTestConfigs[2]
    /\ Len(calls) = 3

\* C4: once executeTests has returned or thrown, no start request is in
\* flight, every lane has finished, and no further worker call or start
\* request is made.
C4_NoFireAndForget ==
    /\ [](Ended => (InFlightCalls = 0 /\ AllLanesDone))
    /\ [][Ended => (starts' = starts /\ calls' = calls)]_vars

\* executeTests has returned after requests were sent, some of which failed.
C4_Witness ==
    /\ pc = "returned"
    /\ Len(calls) = 3
    /\ \E k \in 1..Len(calls) : calls[k].status = "failed"
    /\ \E k \in 1..Len(calls) : calls[k].status = "resolved"

C6_StartNeverRejects ==
    /\ \A l \in 1..Len(lanes) :
          /\ lanes[l].st # "rejected"
          /\ lanes[l].st = "resumable" =>
                /\ ~lanes[l].pending.hole
                /\ lanes[l].pending.config = finalTestConfigs[lanes[l].current + 1]
                /\ lanes[l].pending.success \/ lanes[l].pending.error # Absent
    /\ \A a \in 1..Len(starts) :
          \/ ~results[starts[a] + 1].hole
          \/ \E l \in 1..Len(lanes) :
                lanes[l].current = starts[a] /\ lanes[l].st \in {"awaiting", "resumable"}
    /\ outcome.error # LaneRejectedMessage

\* A lane holds the failed result of a start request the control plane
\* rejected, while another holds the failed result of a missing image or of
\* another failed request.
C6_Witness ==
    /\ \E l \in 1..Len(lanes), k \in 1..Len(calls) :
          /\ lanes[l].st = "resumable"
          /\ ~lanes[l].pending.success
          /\ lanes[l].pending.error = JobNotFoundMessage
          /\ calls[k].idx = lanes[l].current
          /\ calls[k].status = "failed"
    /\ \E i \in 1..Len(results) : ~results[i].hole /\ ~results[i].success

FailedIn(rs) == Cardinality({i \in 1..Len(rs) : ~rs[i].success})
SucceededIn(rs) == Cardinality({i \in 1..Len(rs) : rs[i].success})

\* C7: a returned report has totalExecutions = the length of the dispatched
\* matrix, successful and failed counting the results of each kind and adding
\* up to the total, success exactly when nothing failed, and, when something
\* failed, a message that begins with the failure count.
C7_ReportCounts ==
    pc = "returned" =>
        /\ outcome.totalExecutions = ItemCount
        /\ outcome.successful = SucceededIn(outcome.executions)
        /\ outcome.failed = FailedIn(outcome.executions)
        /\ outcome.successful + outcome.failed = outcome.totalExecutions
        /\ outcome.success = (outcome.failed = 0)
        /\ outcome.failed > 0 =>
              /\ outcome.message # AllStartedMessage
              /\ SubSeq(outcome.message, 1, Len(ToDecimal(FailedIn(outcome.executions))))
                    = ToDecimal(FailedIn(outcome.executions))
              /\ outcome.message = ToDecimal(FailedIn(outcome.executions)) \o FailedSuffix
        /\ outcome.failed = 0 => outcome.message = AllStartedMessage

\* Three cells, the second of which failed to start.
C7_Witness ==
    /\ pc = "returned"
    /\ outcome.totalExecutions = 3
    /\ outcome.successful = 2
    /\ outcome.failed = 1
    /\ ~outcome.success
    /\ ~outcome.executions[2].success
    /\ Head(outcome.message) = "1"

\* The matrix, the container configuration, the job name and the concurrency
\* limit have all been resolved: getConcurrencyLimit, the last of the four,
\* has returned its clamped value.
Resolved == NumLE(Num(ConcurrencyMin), concurrencyLimit)

\* C8: once the matrix, the container configuration, the job name and the
\* concurrency limit are resolved, executeTests does not throw, whatever cells
\* fail to start.
C8_NoThrowOnceResolved == Resolved => pc # "thrown"

ConfigErrors ==
    {MissingJobNameMessage, PassthroughInvalidJsonMessage, PassthroughNotObjectMessage,
     MissingEndpointMessage}

\* C9: when configuration resolution fails (no job name in either source, or
\* a RUNNER_ENV_PASSTHROUGH that is not a JSON object) executeTests has thrown
\* that error, and neither then nor later has any lane been created, any
\* worker called or any start request sent; and a run that stopped before its
\* job name was resolved stopped on such an error.
C9_ConfigFailureBeforeDispatch ==
    /\ outcome.error \in ConfigErrors =>
          /\ pc = "thrown"
          /\ outcome.kind = "throw"
          /\ lanes = <<>> /\ starts = <<>> /\ calls = <<>> /\ index = 0
    /\ (pc = "thrown" /\ ~Resolved) => outcome.error \in ConfigErrors
    /\ ~Resolved => (lanes = <<>> /\ starts = <<>> /\ calls = <<>>)

\* executeTests has thrown for want of a job name, with a matrix of three
\* cells and a usable image at hand.
C9_Witness ==
    /\ pc = "thrown"
    /\ outcome.error = MissingJobNameMessage
    /\ ItemCount = 3
    /\ containerConfig.image # Undefined

BlankImages == {Undefined, <<>>, <<" ">>, <<" ", "\t">>}
ImageResolved == pc \notin {"resolveMatrix", "getContainerConfig"} /\ outcome.error \notin ConfigErrors
ImageMissing == ImageResolved /\ containerConfig.image \in BlankImages

EntriesNamed(env, name) == {i \in 1..Len(env) : env[i].name = name}
ValueNamed(env, name) == env[CHOOSE i \in 1..Len(env) : env[i].name = name].value

StartCalled == probe.fn = "startTestExecution"
RequestSent == StartCalled /\ probe.ret.kind = "request"
ImageUsable(image) == Trim(OrElse(image, <<>>)) # <<>>
PerExecutionNames == {KeyENV, KeyENV_LABEL, KeyPLATFORM, KeyRUN_ID}

CustomGiven == testConfigs.given /\ testConfigs.cells # <<>>

\* C12: with a non-empty custom matrix the dispatched matrix is the custom one
\* and getTestMatrix is never called; otherwise getTestMatrix is called exactly
\* once and the dispatched matrix is what it returned. Either way the worker is
\* called for the indices in order, each request carries its cell's environment
\* and platform, and a returned report lists the cells of that matrix in order.
C12_CustomMatrixVerbatim ==
    /\ pc = "resolveMatrix" => (configCalls.getTestMatrix = <<>> /\ starts = <<>>)
    /\ pc # "resolveMatrix" =>
          /\ CustomGiven =>
                /\ finalTestConfigs = testConfigs.cells
                /\ configCalls.getTestMatrix = <<>>
          /\ ~CustomGiven =>
                /\ Len(configCalls.getTestMatrix) = 1
                /\ finalTestConfigs = configCalls.getTestMatrix[1]
          /\ \A a \in 1..Len(starts) : starts[a] = a - 1
          /\ \A k \in 1..Len(calls) :
                /\ ValueNamed(calls[k].env, KeyENV) = finalTestConfigs[calls[k].idx + 1].env
                /\ ValueNamed(calls[k].env, KeyPLATFORM)
                      = finalTestConfigs[calls[k].idx + 1].platform
          /\ pc = "returned" =>
                /\ Len(starts) = Len(finalTestConfigs)
                /\ Len(outcome.executions) = Len(finalTestConfigs)
                /\ \A i \in 1..Len(finalTestConfigs) :
                      outcome.executions[i].config = finalTestConfigs[i]

\* A run given three custom cells, not all alike, has sent its three requests
\* and returned.
C12_Witness ==
    /\ pc = "returned"
    /\ CustomGiven
    /\ Len(testConfigs.cells) = 3
    /\ testConfigs.cells[1] # testConfigs.cells[2]
    /\ Len(calls) = 3
    /\ configCalls.getTestMatrix = <<>>

\* The number a setting's text denotes, for the texts that are finite numbers;
\* NoNumber for the others (absent, empty, blank, not numeric, infinite).
NoNumber == [num |-> 0, den |-> 0]
NumberOf(text) ==
    CASE text = <<"0">> -> Num(0)
      [] text = <<"1", "0", "0">> -> Num(100)
      [] text = <<"1", "2">> -> Num(12)
      [] text = <<" ", "7", " ">> -> Num(7)
      [] text = <<"2", ".", "5">> -> Frac(5, 2)
      [] text = <<"-", "3">> -> Num(0 - 3)
      [] OTHER -> NoNumber
IsNumber(v) == v.den # 0
NumEq(a, b) == a.num * b.den = b.num * a.den

LimitCalled == probe.fn = "getConcurrencyLimit"
\* The value the limit is taken from: primary source, else environment, else
\* the default.
LimitSource ==
    IF IsNumber(NumberOf(probe.primaryRead)) THEN NumberOf(probe.primaryRead)
    ELSE IF IsNumber(NumberOf(probe.envVar)) THEN NumberOf(probe.envVar)
    ELSE Num(probe.defaultValue)

\* C13: getConcurrencyLimit returns an integer between 1 and 25, which for a
\* numeric input v is max(1, min(25, v)).
C13_LimitIntegerInRange ==
    LimitCalled =>
        /\ probe.ret.kind = "return"
        /\ IsInteger(probe.ret.value)
        /\ NumLE(Num(1), probe.ret.value)
        /\ NumLE(probe.ret.value, Num(25))
        /\ NumEq(probe.ret.value, NumMax(Num(1), NumMin(Num(25), LimitSource)))

\* C14: getConcurrencyLimit never fails and returns the clamped value of the
\* primary-source setting when that is a finite number, whatever the
\* environment holds; else of ORCH_CONCURRENCY_LIMIT when that is a finite
\* number; else of the default. A failed read, an absent, empty, blank,
\* non-numeric or infinite value counts as absent.
C14_LimitPrecedence ==
    LimitCalled =>
        /\ probe.ret.kind = "return"
        /\ IsNumber(NumberOf(probe.primaryRead)) =>
              NumEq(probe.ret.value,
                    NumMax(Num(1), NumMin(Num(25), NumberOf(probe.primaryRead))))
        /\ (~IsNumber(NumberOf(probe.primaryRead)) /\ IsNumber(NumberOf(probe.envVar))) =>
              NumEq(probe.ret.value,
                    NumMax(Num(1), NumMin(Num(25), NumberOf(probe.envVar))))
        /\ (~IsNumber(NumberOf(probe.primaryRead)) /\ ~IsNumber(NumberOf(probe.envVar))) =>
              NumEq(probe.ret.value,
                    NumMax(Num(1), NumMin(Num(25), Num(probe.defaultValue))))

\* The primary read failed and ORCH_CONCURRENCY_LIMIT, a number, was used,
\* with the default of 10 at hand.
C14_Witness ==
    /\ LimitCalled
    /\ probe.primaryRead = ReadFails
    /\ probe.envVar = <<"1", "2">>
    /\ probe.defaultValue = DefaultConcurrencyLimit
    /\ probe.ret.value = Num(12)

\* The job name a setting's text holds once trimmed; empty for an absent,
\* empty or blank setting and for a failed read.
JobNameOf(text) ==
    CASE text = <<" ", "j", "o", "b", "-", "a", " ">> -> <<"j", "o", "b", "-", "a">>
      [] text = <<"j", "o", "b", "-", "b">> -> <<"j", "o", "b", "-", "b">>
      [] OTHER -> <<>>

JobNameCalled == probe.fn = "getContainerAppsJobName"

\* C15: getContainerAppsJobName returns the trimmed primary-source value when
\* it is not empty, else the trimmed CONTAINERAPPS_JOB_NAME when it is not
\* empty, else throws the missing-job-name error; a failed read counts as an
\* empty primary value, and a returned name is never empty.
C15_JobNamePrecedence ==
    JobNameCalled =>
        /\ JobNameOf(probe.primaryRead) # <<>> =>
              probe.ret = Returned(JobNameOf(probe.primaryRead))
        /\ (JobNameOf(probe.primaryRead) = <<>> /\ JobNameOf(probe.envVar) # <<>>) =>
              probe.ret = Returned(JobNameOf(probe.envVar))
        /\ (JobNameOf(probe.primaryRead) = <<>> /\ JobNameOf(probe.envVar) = <<>>) =>
              probe.ret = Thrown(MissingJobNameMessage)
        /\ probe.ret.kind = "return" =>
              /\ probe.ret.value # <<>>
              /\ ~IsWhitespace(probe.ret.value[1])
              /\ ~IsWhitespace(probe.ret.value[Len(probe.ret.value)])

\* The primary read failed and the environment variable, padded with blanks,
\* gave the name.
C15_Witness ==
    /\ JobNameCalled
    /\ probe.primaryRead = ReadFails
    /\ probe.envVar = <<" ", "j", "o", "b", "-", "a", " ">>
    /\ probe.ret = Returned(<<"j", "o", "b", "-", "a">>)

\* The entries a list setting's text holds, trimmed, the empty ones dropped.
ListOf(text) ==
    CASE text = <<"q", "a", ",", "p", "r", "o", "d">> -> <<<<"q", "a">>, <<"p", "r", "o", "d">>>>
      [] text = <<" ", "q", "a", " ", ",", " ", ",", "s", "t", "a", "g", "e", " ">> -> <<<<"q", "a">>, <<"s", "t", "a", "g", "e">>>>
      [] text = <<"w", "e", "b", ",", "m", "o", "b", "i", "l", "e">> -> <<<<"w", "e", "b">>, <<"m", "o", "b", "i", "l", "e">>>>
      [] text = DefaultEnvironments -> <<<<"p", "r", "o", "d">>, <<"s", "t", "a", "g", "e">>, <<"q", "a">>>>
      [] OTHER -> <<>>

MatrixCalled == probe.fn = "getTestMatrix"
Present(text) == text \notin {Undefined, ReadFails, <<>>}
PrimaryRead == probe.envRead # ReadFails /\ probe.platformRead # ReadFails

\* The text each list is resolved from: the primary value when both reads
\* succeeded and it is present, else the environment variable when present,
\* else the default.
ResolvedEnvironments ==
    IF PrimaryRead /\ Present(probe.envRead) THEN probe.envRead
    ELSE IF Present(probe.testEnvironments) THEN probe.testEnvironments
    ELSE DefaultEnvironments
ResolvedPlatforms ==
    IF PrimaryRead /\ Present(probe.platformRead) THEN probe.platformRead
    ELSE IF Present(probe.testPlatforms) THEN probe.testPlatforms
    ELSE DefaultPlatforms

\* C16: for the resolved lists E and P, getTestMatrix returns |E| x |P| cells
\* and the cell at position i * |P| + j is (E[i], P[j]).
C16_CrossProductEnvMajor ==
    MatrixCalled =>
        LET E == ListOf(ResolvedEnvironments)
            P == ListOf(ResolvedPlatforms)
            cells == probe.ret.value
        IN /\ Len(cells) = Len(E) * Len(P)
           /\ \A i \in 0..(Len(E) - 1), j \in 0..(Len(P) - 1) :
                 cells[i * Len(P) + j + 1] = [env |-> E[i + 1], platform |-> P[j + 1]]

\* Two environments and two platforms, from padded texts with an empty entry.
C16_Witness ==
    /\ MatrixCalled
    /\ probe.envRead = <<" ", "q", "a", " ", ",", " ", ",", "s", "t", "a", "g", "e", " ">>
    /\ probe.platformRead = <<"w", "e", "b", ",", "m", "o", "b", "i", "l", "e">>
    /\ Len(probe.ret.value) = 4
    /\ probe.ret.value[2] = [env |-> <<"q", "a">>, platform |-> <<"m", "o", "b", "i", "l", "e">>]

\* The first of a list's three sources that yields an entry.
FirstWithEntries(primary, variable, default) ==
    IF ListOf(primary) # <<>> THEN ListOf(primary)
    ELSE IF ListOf(variable) # <<>> THEN ListOf(variable)
    ELSE ListOf(default)

\* C17: getTestMatrix never returns an empty sequence: each list comes from
\* the primary source, or, when that is unavailable or yields no entry, from
\* the environment variable, or, when that yields no entry, from the default.
C17_MatrixNeverEmpty ==
    MatrixCalled =>
        /\ probe.ret.value # <<>>
        /\ probe.ret.value =
              CrossProduct(
                  FirstWithEntries(probe.envRead, probe.testEnvironments,
                                   DefaultEnvironments),
                  FirstWithEntries(probe.platformRead, probe.testPlatforms,
                                   DefaultPlatforms))

\* The endpoint the orchestrator itself uses (the trimmed APP_CONFIG_ENDPOINT);
\* empty when the variable is absent or blank.
EndpointOf(text) ==
    CASE text = <<"h", "t", "t", "p", "s", ":", "/", "/", "c", "f", "g">> -> <<"h", "t", "t", "p", "s", ":", "/", "/", "c", "f", "g">>
      [] text = <<" ", "h", "t", "t", "p", "s", ":", "/", "/", "c", "f", "g", " ">> -> <<"h", "t", "t", "p", "s", ":", "/", "/", "c", "f", "g">>
      [] OTHER -> <<>>

ConfigCalled == probe.fn = "getContainerConfig"
PassthroughAccepted == probe.passthrough.kind \in {"absent", "object"}
HasOneEndpoint(map, endpoint) ==
    /\ Cardinality(EntriesNamed(map, KeyAPP_CONFIG_ENDPOINT)) = 1
    /\ ValueNamed(map, KeyAPP_CONFIG_ENDPOINT) = endpoint

\* C18: for an absent RUNNER_ENV_PASSTHROUGH and for every JSON object, with
\* or without an APP_CONFIG_ENDPOINT of its own, getContainerConfig returns a
\* map holding APP_CONFIG_ENDPOINT with the orchestrator's own endpoint, and a
\* start request built from that configuration carries that one value.
C18_EndpointForwarded ==
    /\ (ConfigCalled /\ PassthroughAccepted /\ EndpointOf(probe.endpoint) # <<>>) =>
          probe.ret.kind = "return"
    /\ (ConfigCalled /\ probe.ret.kind = "return") =>
          /\ PassthroughAccepted
          /\ EndpointOf(probe.endpoint) # <<>>
          /\ HasOneEndpoint(probe.ret.value.runnerEnv, EndpointOf(probe.endpoint))
    /\ (StartCalled /\ ~probe.byHand) =>
          /\ ImageUsable(probe.containerConfig.image) => probe.ret.kind = "request"
          /\ probe.ret.kind = "request" =>
                HasOneEndpoint(probe.ret.env, EndpointOf(probe.endpoint))

\* A request was built from a passthrough object that named another endpoint.
C18_Witness ==
    /\ RequestSent
    /\ ~probe.byHand
    /\ probe.passthrough.kind = "object"
    /\ HasKey(probe.passthrough.entries, KeyAPP_CONFIG_ENDPOINT)
    /\ Lookup(probe.passthrough.entries, KeyAPP_CONFIG_ENDPOINT).text
          \notin {<<>>, EndpointOf(probe.endpoint)}
    /\ probe.endpoint # EndpointOf(probe.endpoint)
    /\ HasKey(probe.ret.env, KeySUITE)

\* The names explored that match [A-Za-z_][A-Za-z0-9_]*.
PatternNames ==
    {KeyENV, KeyENV_LABEL, KeyPLATFORM, KeyRUN_ID, KeyBUILD_NUMBER,
     KeyAPP_CONFIG_ENDPOINT, KeySUITE, KeyPW_WORKERS, KeyProto,
     <<"D", "E", "B", "U", "G">>, <<"_", "o", "k", "1">>}

\* C19: getContainerConfig fails when RUNNER_ENV_PASSTHROUGH is set and is
\* invalid JSON, an array, null or a primitive. When it is a JSON object the
\* call returns a map in which no key is present that fails the name pattern
\* or is one of ENV, ENV_LABEL, PLATFORM, RUN_ID, and every other key of the
\* object is present, with the string form of its value (APP_CONFIG_ENDPOINT
\* with the orchestrator's endpoint), and nothing else.
C19_PassthroughFiltered ==
    (ConfigCalled /\ EndpointOf(probe.endpoint) # <<>>) =>
        /\ probe.passthrough.kind \in {"invalid", "array", "null", "primitive"} =>
              probe.ret.kind = "throw"
        /\ probe.passthrough.kind = "object" =>
              /\ probe.ret.kind = "return"
              /\ \A i \in 1..Len(probe.passthrough.entries) :
                    LET e == probe.passthrough.entries[i]
                        map == probe.ret.value.runnerEnv
                    IN IF e.name \notin PatternNames \/ e.name \in PerExecutionNames
                       THEN EntriesNamed(map, e.name) = {}
                       ELSE /\ Cardinality(EntriesNamed(map, e.name)) = 1
                            /\ (e.name # KeyAPP_CONFIG_ENDPOINT /\ e.value.type # "null")
                                  => ValueNamed(map, e.name) = e.value.text
                            /\ (e.name # KeyAPP_CONFIG_ENDPOINT /\ e.value.type = "null")
                                  => ValueNamed(map, e.name) = <<>>
              /\ \A j \in 1..Len(probe.ret.value.runnerEnv) :
                    \/ probe.ret.value.runnerEnv[j].name = KeyAPP_CONFIG_ENDPOINT
                    \/ HasKey(probe.passthrough.entries, probe.ret.value.runnerEnv[j].name)

\* C20: a returned run logged the job-not-found hint only if it had at least
\* one result, every result failed and every result's error is a
\* job-not-found error (of the failures explored, JobNotFoundMessage alone
\* matches the pattern); and with or without the hint the report's success,
\* successful and failed are the counts of its results.
C20_HintOnlyWhenAllJobNotFound ==
    pc = "returned" =>
        /\ outcome.hint =>
              /\ Len(outcome.executions) >= 1
              /\ \A i \in 1..Len(outcome.executions) :
                    /\ ~outcome.executions[i].success
                    /\ outcome.executions[i].error = JobNotFoundMessage
        /\ outcome.successful = SucceededIn(outcome.executions)
        /\ outcome.failed = FailedIn(outcome.executions)
        /\ outcome.success = (FailedIn(outcome.executions) = 0)

\* The positions of s (1-based) that hold the character c.
PositionsOf(s, c) == {i \in 1..Len(s) : s[i] = c}
TagCalled == probe.fn = "tryExtractImageTag"

\* The examples of the claim: reference, tag.
TagExamples ==
    {<<<<"r", "e", "p", "o", ":", "v", "1">>, <<"v", "1">>>>,
     <<<<"m", "y", "r", "e", "g", "i", "s", "t", "r", "y", ":", "5", "0", "0", "0", "/", "r", "e", "p", "o", ":", "v", "2">>, <<"v", "2">>>>,
     <<<<"m", "y", "r", "e", "g", "i", "s", "t", "r", "y", ":", "5", "0", "0", "0", "/", "r", "e", "p", "o">>, Undefined>>,
     <<<<"r", "e", "p", "o", "@", "s", "h", "a", "2", "5", "6", ":", "a", "b", "c", "d">>, Undefined>>,
     <<<<"r", "e", "p", "o">>, Undefined>>}

\* C23: tryExtractImageTag returns what follows the last ':' exactly when the
\* reference has no '@', no '/' follows that ':', and something follows it;
\* otherwise it returns undefined. The five examples come out as stated.
C23_TagExtraction ==
    TagCalled =>
        LET v == probe.image
            colons == PositionsOf(v, ":")
            hasTag == /\ PositionsOf(v, "@") = {}
                      /\ colons # {}
                      /\ \E i \in colons :
                            /\ \A j \in colons : j <= i
                            /\ \A j \in PositionsOf(v, "/") : j < i
                            /\ i < Len(v)
        IN /\ hasTag =>
                \E i \in colons :
                    /\ \A j \in colons : j <= i
                    /\ probe.ret = SubSeq(v, i + 1, Len(v))
           /\ ~hasTag => probe.ret = Undefined
           /\ \A ex \in TagExamples : v = ex[1] => probe.ret = ex[2]

\* A reference with a registry port and a tag gave its tag.
C23_Witness ==
    /\ TagCalled
    /\ probe.image = <<"m", "y", "r", "e", "g", "i", "s", "t", "r", "y", ":", "5", "0", "0", "0", "/", "r", "e", "p", "o", ":", "v", "2">>
    /\ probe.ret = <<"v", "2">>

\* The number each resource text explored denotes for parseFloat.
ResourceNumberOf(text) ==
    CASE text = <<"0", ".", "5">> -> JsFinite(1, 2)
      [] text = <<"4">> -> JsFinite(4, 1)
      [] text = <<"1", ".", "5">> -> JsFinite(3, 2)
      [] text = <<"0">> -> JsFinite(0, 1)
      [] text = <<"2", ".", "0">> -> JsFinite(2, 1)
      [] text = <<"1", ".", "0">> -> JsFinite(1, 1)
      [] text = <<"a", "b", "c">> -> JsNaN
SameNumber(a, b) ==
    /\ a.kind = b.kind
    /\ a.kind = "num" => a.num * b.den = b.num * a.den
    /\ a.kind = "inf" => a.num = b.num

\* The image each image text explored gives once trimmed.
ImageOf(text) ==
    CASE text = <<" ">> -> Undefined
      [] text = <<" ", "r", "e", "g", ":", "5", "0", "0", "0", "/", "r", "e", "p", "o", " ">>
            -> <<"r", "e", "g", ":", "5", "0", "0", "0", "/", "r", "e", "p", "o">>
      [] OTHER -> text

\* The text a setting is taken from: the primary value when present, else the
\* environment variable when present, else the literal default.
FirstPresent(primary, variable, default) ==
    IF Present(primary) THEN primary
    ELSE IF Present(variable) THEN variable
    ELSE default

ConfigReturned == ConfigCalled /\ probe.ret.kind = "return"

\* C24: getContainerConfig takes image, cpu and memoryGB each from its own
\* primary value when that is present and not empty, else from its own
\* environment variable, else from its default (no image, 1.0, 2.0), whatever
\* the reads of the other two keys did; a failed read never makes it fail.
C24_BaseSettingsIndependent ==
    ConfigCalled =>
        /\ (PassthroughAccepted /\ Present(Trim(OrElse(probe.endpoint, <<>>))))
              => probe.ret.kind = "return"
        /\ probe.ret.kind = "return" =>
              /\ probe.ret.value.image =
                    ImageOf(FirstPresent(probe.settings.image,
                                         probe.env.CONTAINER_IMAGE, Undefined))
              /\ SameNumber(probe.ret.value.cpu,
                            ResourceNumberOf(FirstPresent(probe.settings.cpu,
                                                          probe.env.CONTAINER_CPU,
                                                          <<"1", ".", "0">>)))
              /\ SameNumber(probe.ret.value.memoryGB,
                            ResourceNumberOf(FirstPresent(probe.settings.memoryGB,
                                                          probe.env.CONTAINER_MEMORY_GB,
                                                          <<"2", ".", "0">>)))

\* The image read failed; the image came from CONTAINER_IMAGE, cpu from its
\* primary value and memoryGB from its default.
C24_Witness ==
    /\ ConfigReturned
    /\ probe.settings.image = ReadFails
    /\ probe.env.CONTAINER_IMAGE = <<"r", "e", "p", "o", ":", "v", "1">>
    /\ probe.settings.cpu = <<"0", ".", "5">>
    /\ probe.env.CONTAINER_CPU = <<"4">>
    /\ probe.settings.memoryGB = Undefined
    /\ probe.env.CONTAINER_MEMORY_GB = Undefined
    /\ probe.ret.value.image = <<"r", "e", "p", "o", ":", "v", "1">>
    /\ probe.ret.value.cpu = JsFinite(5, 10)
    /\ SameNumber(probe.ret.value.memoryGB, JsFinite(2, 1))

FalseText == <<"f", "a", "l", "s", "e">>

\* C28: when the primary source holds no value or an empty value for
\* Network:Enabled and NETWORK_ENABLED is false, the config getContainerConfig
\* returns has no network.
C28_NetworkDisabledByEnvironment ==
    (/\ ConfigReturned
     /\ probe.settings.networkEnabled \in {Undefined, <<>>}
     /\ probe.env.NETWORK_ENABLED = FalseText)
        => ~probe.ret.value.network.defined

\* The part of C28 that holds: with no primary value, NETWORK_ENABLED decides.
C28_UnsetFallsBack ==
    (/\ ConfigReturned
     /\ probe.settings.networkEnabled \in {Undefined, ReadFails}
     /\ probe.env.NETWORK_ENABLED = FalseText)
        => ~probe.ret.value.network.defined

\* C29: an ENV_LABEL entry of the RUNNER_ENV_PASSTHROUGH object is not
\* reserved: the map getContainerConfig returns holds it, and the env list of
\* a start request made with that map carries ENV_LABEL once, with the
\* entry's value.
C29_EnvLabelForwarded ==
    /\ (ConfigReturned /\ probe.passthrough.kind = "object") =>
          \A i \in 1..Len(probe.passthrough.entries) :
             LET e == probe.passthrough.entries[i]
             IN (e.name = KeyENV_LABEL /\ e.value.type = "string") =>
                   /\ EntriesNamed(probe.ret.value.runnerEnv, KeyENV_LABEL) # {}
                   /\ ValueNamed(probe.ret.value.runnerEnv, KeyENV_LABEL) = e.value.text
    /\ (RequestSent /\ ~probe.byHand /\ probe.passthrough.kind = "object") =>
          \A i \in 1..Len(probe.passthrough.entries) :
             LET e == probe.passthrough.entries[i]
             IN (e.name = KeyENV_LABEL /\ e.value.type = "string") =>
                   /\ Cardinality(EntriesNamed(probe.ret.env, KeyENV_LABEL)) = 1
                   /\ ValueNamed(probe.ret.env, KeyENV_LABEL) = e.value.text

SizeChars == {"0", "1", "2", "3", "4", "5", "6", "7", "8", "9", "."}

\* A decimal numeral followed by "Gi".
NumericSize(text) ==
    /\ Len(text) >= 3
    /\ text[Len(text) - 1] = "G" /\ text[Len(text)] = "i"
    /\ \A i \in 1..(Len(text) - 2) : text[i] \in SizeChars
    /\ Cardinality({i \in 1..(Len(text) - 2) : text[i] = "."}) <= 1

\* The memory string of each memory value explored.
MemoryTextOf(m) ==
    CASE m.num * 4 <= m.den -> <<"0", ".", "2", "5", "G", "i">>
      [] m.num * 2 = 3 * m.den -> <<"1", ".", "5", "G", "i">>
      [] m.num = 2 * m.den -> <<"2", "G", "i">>

\* C30: the memory string of a start request is max(0.25, m) followed by
\* "Gi", without a fractional part for a whole number (0 gives "0.25Gi", 1.5
\* gives "1.5Gi", 2.0 gives "2Gi"); it is always a decimal numeral followed by
\* "Gi"; and the request's cpu is the config's cpu.
C30_MemoryString ==
    RequestSent =>
        /\ probe.ret.cpu = probe.containerConfig.cpu
        /\ NumericSize(probe.ret.memory)
        /\ probe.containerConfig.memoryGB.kind = "num" =>
              probe.ret.memory = MemoryTextOf(probe.containerConfig.memoryGB)

\* The part of C30 that holds: for a memory value that is a number.
C30_NumbersOnly ==
    (RequestSent /\ probe.containerConfig.memoryGB.kind = "num") =>
        /\ probe.ret.cpu = probe.containerConfig.cpu
        /\ NumericSize(probe.ret.memory)
        /\ probe.ret.memory = MemoryTextOf(probe.containerConfig.memoryGB)

\* The results startTestExecution has returned so far, each with the index of
\* the cell it was called for: those stored in the results array and those a
\* lane holds between the worker's return and the store.
ReturnedResults ==
    {[idx |-> i - 1, r |-> results[i]] : i \in {j \in 1..Len(results) : ~results[j].hole}}
    \cup {[idx |-> lanes[l].current, r |-> lanes[l].pending] :
             l \in {m \in 1..Len(lanes) : lanes[m].st = "resumable"}}

RemoteReturned(i) == \E k \in 1..Len(calls) : calls[k].idx = i /\ calls[k].status = "resolved"

\* C27: every result of startTestExecution has the job name and the cell it
\* was called with; when the remote start returned it has success = true,
\* startedAt and no error; in every other case it has success = false, an
\* error, executionName "unknown" and no executionId.
C27_ResultShape ==
    \A x \in ReturnedResults :
        /\ x.r.jobName = jobName
        /\ x.r.config = finalTestConfigs[x.idx + 1]
        /\ RemoteReturned(x.idx) =>
              x.r.success /\ x.r.startedAt # Absent /\ x.r.error = Absent
        /\ ~RemoteReturned(x.idx) =>
              /\ ~x.r.success
              /\ x.r.error # Absent
              /\ x.r.executionName = UnknownName
              /\ x.r.executionId = Absent
              /\ x.r.startedAt = Absent

\* A run returned with a start that succeeded and a start that failed.
C27_Witness ==
    /\ pc = "returned"
    /\ \E i, j \in 1..Len(results) :
          /\ ~results[i].hole /\ results[i].success /\ results[i].startedAt # Absent
          /\ ~results[j].hole /\ ~results[j].success /\ results[j].error # Absent

LimitBelowOne == concurrencyLimit.num < concurrencyLimit.den
Entered == pc \in {"running", "returned", "thrown"}
UnsettledCalls == {k \in 1..Len(calls) : calls[k].status \in {"inflight", "hung"}}

\* C25: runWithConcurrencyLimit called with a limit below 1 runs as with limit
\* 1: it does not fail, it has the one lane that limit 1 gives (none for no
\* item), at most one call is unsettled at a time, the items are claimed in
\* order, each after the result of the one before it was stored, and when it
\* returns every slot was stored once and holds the result of its own cell.
C25_LimitBelowOneIsOne ==
    (LimitBelowOne /\ Entered) =>
        /\ pc # "thrown"
        /\ laneCount = (IF ItemCount = 0 THEN 0 ELSE 1)
        /\ Cardinality(UnsettledCalls) <= 1
        /\ \A n \in 1..Len(starts) :
              /\ starts[n] = n - 1
              /\ n > 1 => writes[n - 1] = 1 /\ ~results[n - 1].hole
        /\ pc = "returned" =>
              /\ Len(results) = ItemCount
              /\ outcome.executions = results
              /\ \A i \in 1..ItemCount :
                    /\ writes[i] = 1
                    /\ ~results[i].hole
                    /\ results[i].config = finalTestConfigs[i]
                    /\ results[i].success <=> RemoteReturned(i - 1)

\* A call with limit 0 returned the results of three items.
C25_Witness ==
    /\ concurrencyLimit = Num(0)
    /\ pc = "returned"
    /\ ItemCount = 3
    /\ laneCount = 1
    /\ \A i \in 1..ItemCount : writes[i] = 1 /\ ~results[i].hole

LimitAtLeastTwo == concurrencyLimit.num >= 2 * concurrencyLimit.den
HungCalls == {k \in 1..Len(calls) : calls[k].status = "hung"}
Dispatched(i) == (\E n \in 1..Len(starts) : starts[n] = i) /\ (\E k \in 1..Len(calls) : calls[k].idx = i)

\* C26: with a limit of at least 2, once a start call is left unsettled for
\* ever, every item is still eventually claimed and handed to the control
\* plane, the calls of the other items being settled.
C26_HungCallBlocksOneLane ==
    (LimitAtLeastTwo /\ HungCalls # {}) ~> (\A i \in 0..(ItemCount - 1) : Dispatched(i))

\* The first call of three hangs under limit 2, and the other lane has
\* stored the results of the other two items.
C26_Witness ==
    /\ concurrencyLimit = Num(2)
    /\ ItemCount = 3
    /\ laneCount = 2
    /\ \E k \in HungCalls : calls[k].idx = 0
    /\ writes = <<0, 1, 1>>
    /\ \A i \in 0..2 : Dispatched(i)

MainCalled == probe.fn = "main"
MainExited == MainCalled /\ pc = "exited"
StepThrew ==
    \/ probe.azureConfig.kind = "throw"
    \/ probe.configService.kind = "throw"
    \/ probe.customMatrix.kind = "throw"
    \/ outcome.kind = "throw"

\* C21: main exits with code 0 exactly when executeTests returned a report
\* whose success is true; it exits with code 1 when the report has a failed
\* start, and when getAzureConfig, the ConfigService constructor,
\* resolveCustomMatrixFromEnv or executeTests threw.
C21_ExitCode ==
    MainExited =>
        /\ probe.exitCode \in {0, 1}
        /\ probe.exitCode = 0 <=> (outcome.kind = "return" /\ outcome.success)
        /\ (outcome.kind = "return" /\ outcome.failed >= 1) => probe.exitCode = 1
        /\ (\E i \in 1..Len(results) : ~results[i].hole /\ ~results[i].success)
              => probe.exitCode = 1
        /\ StepThrew => probe.exitCode = 1

\* main exited with code 0 after a report of two successful starts.
C21_Witness ==
    /\ MainExited
    /\ probe.exitCode = 0
    /\ outcome.kind = "return" /\ outcome.success
    /\ outcome.successful = 2 /\ outcome.failed = 0

BlankTexts == {<<>>, <<" ">>}
FieldInvalid(v) == v.type # "string" \/ v.text \in BlankTexts
ItemInvalid(item) ==
    item.type # "object" \/ FieldInvalid(item.env) \/ FieldInvalid(item.platform)
MustThrow(raw) ==
    \/ raw.kind \in {"invalid", "object", "null", "number"}
    \/ raw.kind = "array" /\ \E i \in 1..Len(raw.items) : ItemInvalid(raw.items[i])

\* The field texts explored, trimmed.
TrimmedOf(text) ==
    CASE text = <<" ", "q", "a", " ">> -> <<"q", "a">>
      [] text = <<" ", "w", "e", "b">> -> <<"w", "e", "b">>
      [] OTHER -> text

MatrixResolved == MainCalled /\ probe.customMatrix.kind # "none"

\* C22: resolveCustomMatrixFromEnv throws when TEST_CONFIGS_JSON is not valid
\* JSON, is no array, or has an item without a non-blank string env or
\* platform; otherwise it returns one cell per item, in the items' order, with
\* the item's env and platform trimmed, and that matrix is what executeTests
\* is given. When it throws, main makes no start call and exits with code 1.
C22_CustomMatrixAllOrNothing ==
    MatrixResolved =>
        /\ probe.customMatrix.kind = "throw" <=> MustThrow(probe.raw)
        /\ probe.customMatrix.kind = "return" =>
              /\ testConfigs = probe.customMatrix.value
              /\ Len(testConfigs.cells) = Len(probe.raw.items)
              /\ \A i \in 1..Len(probe.raw.items) :
                    /\ testConfigs.cells[i].env = TrimmedOf(probe.raw.items[i].env.text)
                    /\ testConfigs.cells[i].platform =
                          TrimmedOf(probe.raw.items[i].platform.text)
        /\ probe.customMatrix.kind = "throw" =>
              /\ starts = <<>>
              /\ calls = <<>>
              /\ pc = "exited"
              /\ probe.exitCode = 1

\* An array whose first item is valid and whose second item has a blank env
\* was rejected, and nothing was started.
C22_Witness ==
    /\ MatrixResolved
    /\ probe.raw.kind = "array"
    /\ Len(probe.raw.items) >= 2
    /\ ~ItemInvalid(probe.raw.items[1])
    /\ ItemInvalid(probe.raw.items[2])
    /\ probe.customMatrix.kind = "throw"
    /\ pc = "exited"
    /\ starts = <<>>

\* getConcurrencyLimit has returned and runWithConcurrencyLimit has been
\* entered.
PoolEntered == configCalls.getConcurrencyLimit # <<>> /\ pc # "runWithConcurrencyLimit"

\* C32: whatever getConcurrencyLimit returned and whatever the matrix,
\* runWithConcurrencyLimit creates its lanes, one results slot per cell, and
\* the run does not fail.
C32_ResolvedLimitNeverFails ==
    PoolEntered =>
        /\ pc \in {"running", "returned"}
        /\ outcome.error # InvalidArrayLengthMessage
        /\ Len(results) = ItemCount
        /\ laneCount <= ItemCount

\* The part of C32 that holds: for a limit that is a whole number.
C32_WholeLimitNeverFails ==
    (PoolEntered /\ IsInteger(concurrencyLimit)) =>
        /\ pc \in {"running", "returned"}
        /\ Len(results) = ItemCount
        /\ laneCount <= ItemCount

\* min(max(1, limit), N)
WorkersWanted == NumMin(NumMax(Num(1), concurrencyLimit), Num(ItemCount))
LanesIdle == {l \in 1..Len(lanes) : lanes[l].st \notin {"awaiting", "resumable"}}

\* C31: runWithConcurrencyLimit has min(max(1, limit), N) lanes, and as long
\* as an index is unclaimed every lane created holds a worker call it has not
\* yet taken the result of: none has returned.
C31_AllWorkersBusy ==
    PoolEntered =>
        /\ laneCount * WorkersWanted.den = WorkersWanted.num
        /\ (pc = "returned" \/ AllLanesDone) => Len(lanes) = laneCount
        /\ (pc = "running" /\ index < ItemCount) => LanesIdle = {}

\* The part of C31 that holds: for a limit that is a whole number.
C31_WholeLimitAllWorkersBusy ==
    (PoolEntered /\ IsInteger(concurrencyLimit)) =>
        /\ laneCount * WorkersWanted.den = WorkersWanted.num
        /\ (pc = "returned" \/ AllLanesDone) => Len(lanes) = laneCount
        /\ (pc = "running" /\ index < ItemCount) => LanesIdle = {}

FiveNames == {KeyENV, KeyENV_LABEL, KeyPLATFORM, KeyRUN_ID, KeyBUILD_NUMBER}
NotReservedEntry(e) == e.name \notin FiveNames

\* The tag of each image reference a request is built with.
TagOf(image) ==
    IF image = <<"r", "e", "p", "o", ":", "v", "1">> THEN <<"v", "1">> ELSE Undefined

C34_StartsInMatrixOrder ==
    /\ [](/\ \A n \in 1..Len(starts) : starts[n] = n - 1
          /\ \A k \in 1..Len(calls) :
                /\ calls[k].idx \in 0..(ItemCount - 1)
                /\ \A j \in 1..(k - 1) : calls[j].idx < calls[k].idx
                /\ ValueNamed(calls[k].env, KeyENV) = finalTestConfigs[calls[k].idx + 1].env
                /\ ValueNamed(calls[k].env, KeyPLATFORM)
                      = finalTestConfigs[calls[k].idx + 1].platform)
    /\ [][starts' # starts => starts' = Append(starts, Len(starts))]_vars

\* Three cells on two lanes: the second request settled first, and the third
\* was issued while the first was still in flight.
C34_Witness ==
    /\ ItemCount = 3
    /\ laneCount = 2
    /\ starts = <<0, 1, 2>>
    /\ Len(calls) = 3
    /\ calls[1].status = "inflight"
    /\ calls[2].status # "inflight"
    /\ finalTestConfigs[1] # finalTestConfigs[2]

Dispatching == starts # <<>> \/ pc \in {"running", "returned"}
SharedCalls ==
    <<configCalls.getContainerConfig, configCalls.getContainerAppsJobName,
      configCalls.getConcurrencyLimit>>

\* C35: in a run of executeTests getContainerConfig, getContainerAppsJobName
\* and getConcurrencyLimit are never called twice, and each has been called
\* once before the first call of startTestExecution; every call of
\* startTestExecution is made with the job name and the container config those
\* calls returned (its result has the job name, its request the config's
\* image, resources and passthrough entries); and from the first dispatch on
\* neither changes, nor is any of the three called again.
C35_SharedSettingsResolvedOnce ==
    /\ [](/\ \A c \in 1..3 : Len(SharedCalls[c]) <= 1
          /\ Dispatching =>
                /\ \A c \in 1..3 : Len(SharedCalls[c]) = 1
                /\ containerConfig = configCalls.getContainerConfig[1].value
                /\ jobName = configCalls.getContainerAppsJobName[1].value
                /\ concurrencyLimit = configCalls.getConcurrencyLimit[1]
          /\ \A x \in ReturnedResults : x.r.jobName = jobName
          /\ \A k \in 1..Len(calls) :
                /\ calls[k].cpu = containerConfig.cpu
                /\ calls[k].image = calls[1].image
                /\ calls[k].memory = calls[1].memory
                /\ SelectSeq(calls[k].env, NotReservedEntry)
                      = SelectSeq(containerConfig.runnerEnv, NotReservedEntry))
    /\ [][Dispatching => (/\ containerConfig' = containerConfig
                          /\ jobName' = jobName
                          /\ configCalls' = configCalls)]_vars

\* A run returned after three requests that carried the passthrough map.
C35_Witness ==
    /\ pc = "returned"
    /\ Len(calls) = 3
    /\ Len(containerConfig.runnerEnv) >= 2
    /\ \E i \in 1..Len(results) : results[i].success
    /\ \A c \in 1..3 : Len(SharedCalls[c]) = 1

\* C36: the env list of a start request has a BUILD_NUMBER entry exactly when
\* the image has a tag, one entry, holding the tag, never a BUILD_NUMBER value
\* of the passthrough map; and an image without a tag is no reason for the
\* call not to send its request.
C36_BuildNumberFromTagOnly ==
    StartCalled =>
        /\ ImageUsable(probe.containerConfig.image) => probe.ret.kind = "request"
        /\ probe.ret.kind = "request" =>
              LET tag == TagOf(probe.ret.image)
                  found == EntriesNamed(probe.ret.env, KeyBUILD_NUMBER)
              IN IF tag = Undefined
                 THEN found = {}
                 ELSE /\ Cardinality(found) = 1
                      /\ ValueNamed(probe.ret.env, KeyBUILD_NUMBER) = tag

\* A request was sent for an image without a tag, with a passthrough map that
\* holds BUILD_NUMBER, and its env list has no BUILD_NUMBER.
C36_Witness ==
    /\ RequestSent
    /\ TagOf(probe.ret.image) = Undefined
    /\ EntriesNamed(probe.containerConfig.runnerEnv, KeyBUILD_NUMBER) # {}
    /\ EntriesNamed(probe.ret.env, KeyBUILD_NUMBER) = {}

EmptyMatrixResolved == PoolEntered /\ ItemCount = 0

\* C37: when the matrix resolved for a run is empty, whatever the limit,
\* runWithConcurrencyLimit creates no lane and calls startTestExecution for
\* nothing, the run does not throw, and the report it returns has
\* totalExecutions = 0, successful = 0, failed = 0, no execution and
\* success = true.
C37_EmptyMatrixSucceeds ==
    EmptyMatrixResolved =>
        /\ pc \in {"running", "returned"}
        /\ laneCount = 0 /\ lanes = <<>>
        /\ starts = <<>> /\ calls = <<>>
        /\ pc = "running" => ENABLED <<AwaitAll>>_vars
        /\ pc = "returned" =>
              /\ outcome.kind = "return"
              /\ outcome.totalExecutions = 0
              /\ outcome.successful = 0
              /\ outcome.failed = 0
              /\ outcome.executions = <<>>
              /\ outcome.success
              /\ ~outcome.hint

\* A run over an empty default matrix returned under a fractional limit.
C37_Witness ==
    /\ EmptyMatrixResolved
    /\ pc = "returned"
    /\ ~usingCustom
    /\ configCalls.getTestMatrix = <<<<>>>>
    /\ concurrencyLimit = Frac(25, 10)
    /\ outcome.success

VariableOrDefault(variable, default) == IF Present(variable) THEN variable ELSE default

\* C38: when the read of TestMatrix:Environments or of TestMatrix:Platforms
\* fails, getTestMatrix returns, and both lists are those of the environment
\* variables, or the defaults where a variable is not set, whatever the other
\* read returned.
C38_FailedReadDropsBothLists ==
    (MatrixCalled /\ ~PrimaryRead) =>
        /\ probe.ret.kind = "return"
        /\ LET E == ListOf(VariableOrDefault(probe.testEnvironments, DefaultEnvironments))
               P == ListOf(VariableOrDefault(probe.testPlatforms, DefaultPlatforms))
               cells == probe.ret.value
           IN /\ Len(cells) = Len(E) * Len(P)
              /\ \A i \in 1..Len(E), j \in 1..Len(P) :
                    cells[(i - 1) * Len(P) + j] = [env |-> E[i], platform |-> P[j]]

\* The environments were read, the read of the platforms failed, and the
\* matrix is the one of the defaults.
C38_Witness ==
    /\ MatrixCalled
    /\ probe.envRead = <<"q", "a", ",", "p", "r", "o", "d">>
    /\ probe.platformRead = ReadFails
    /\ probe.testEnvironments = Undefined
    /\ probe.testPlatforms = Undefined
    /\ Len(probe.ret.value) = 6
    /\ probe.ret.value[1] = [env |-> <<"p", "r", "o", "d">>, platform |-> <<"w", "e", "b">>]
    /\ probe.ret.value[4] = [env |-> <<"s", "t", "a", "g", "e">>,
                             platform |-> <<"m", "o", "b", "i", "l", "e">>]


\* The RUN_ID entry of the k-th start request of the run.
RunIdOf(k) == ValueNamed(calls[k].env, KeyRUN_ID)

\* C39, first half: each start call carries a RUN_ID generated for that call
\* alone: the request of the k-th call carries the first eight characters of
\* the k-th UUID that randomUUID() returned in the run, and randomUUID() was
\* called once per start call.
C39_RunIdFromOwnUuid ==
    /\ Len(Issued) = Len(calls)
    /\ \A k \in 1..Len(calls) :
          /\ Len(RunIdOf(k)) = 8
          /\ \A i \in 1..8 : RunIdOf(k)[i] = Issued[k][i]

\* C39: each start call carries a RUN_ID generated for that call alone, and
\* the RUN_ID values of the executions started in one run are pairwise
\* distinct.
C39_RunIdsPairwiseDistinct ==
    /\ C39_RunIdFromOwnUuid
    /\ \A j, k \in 1..Len(calls) : j # k => RunIdOf(j) # RunIdOf(k)

\* Two start calls of one run were given different UUIDs and carry the same
\* RUN_ID.
C39_SameRunIdFromDifferentUuids ==
    \E j, k \in 1..Len(calls) :
        /\ j # k
        /\ Issued[j] # Issued[k]
        /\ RunIdOf(j) = RunIdOf(k)

====
